---- MODULE Spec2Model ----
(***************************************************************************)
(* Model of the municipal query pipeline of avecta-survey:                 *)
(*   QueryAnalyzer      src/services/MunicipalPromptEngine.js (l. 566 ff.) *)
(*   ScopeClassifier    src/services/ScopeClassifier.js                    *)
(*   IntelligentOrchestrator  src/orchestrator.js                          *)
(*                                                                         *)
(* Queries are strings.  A JavaScript `null` query is encoded by the       *)
(* reserved string NULL, which no text query equals.  Confidence values    *)
(* are hundredths (0.65 is 65).                                            *)
(***************************************************************************)
EXTENDS Integers, Sequences, FiniteSets, TLC

VARIABLES
    env,             \* process.env.CLAUDE_API_KEY as it is now
    startupEnv,      \* process.env.CLAUDE_API_KEY when the singleton was built
    hasValidApiKey,  \* IntelligentOrchestrator.hasValidApiKey
    enabled,         \* ScopeClassifier.enabled
    pc,              \* where the request in flight is suspended
    query,           \* argument of orchestrate / analyzeQuery
    scope,           \* what ScopeClassifier.classify returned (or NoValue)
    queryAnalysis,   \* what analyzeQuery returned (or NoValue)
    intelligentContext,
    agentResult,
    llmResult,
    outcome,         \* how the call ended: NoValue, a returned object, or Thrown
    stages,          \* pipeline stages the request went through, in order
    calls,           \* components invoked for the request, in order
    failures,        \* failures observed while the request was processed
    serviceCall,     \* the service method in progress and its arguments (or NoValue)
    serviceResult,   \* what that method returned (or NoValue)
    inflight         \* the locals of each orchestrate call running on the singleton

vars == <<env, startupEnv, hasValidApiKey, enabled, pc, query, scope,
          queryAnalysis, intelligentContext, agentResult, llmResult,
          outcome, stages, calls, failures, serviceCall, serviceResult,
          inflight>>

serviceVars == <<serviceCall, serviceResult>>

pipelineVars == <<env, startupEnv, hasValidApiKey, enabled, pc, query, scope,
                  queryAnalysis, intelligentContext, agentResult, llmResult,
                  outcome, stages, calls, failures>>

NULL == "<null>"
Undefined == "<undefined>"
NoValue == [kind |-> "none"]

-----------------------------------------------------------------------------
(* String primitives of the JavaScript runtime the code relies on.         *)

UpperChars == "ABCDEFGHIJKLMNOPQRSTUVWXYZÁÀÂÃÉÈÊÍÌÎÓÒÔÕÚÙÛÇ"
LowerChars == "abcdefghijklmnopqrstuvwxyzáàâãéèêíìîóòôõúùûç"
AccentChars == "áàâãéèêíìîóòôõúùûç"
PlainChars == "aaaaeeeiiioooouuuc"

CharAt(s, i) == SubSeq(s, i, i)

Translate(c, from, to) ==
    IF \E i \in 1..Len(from) : CharAt(from, i) = c
    THEN CharAt(to, CHOOSE i \in 1..Len(from) : CharAt(from, i) = c)
    ELSE c

RECURSIVE toLowerCase(_)
toLowerCase(s) ==
    IF s = "" THEN ""
    ELSE Translate(Head(s), UpperChars, LowerChars) \o toLowerCase(Tail(s))

RECURSIVE stripDiacritics(_)
stripDiacritics(s) ==
    IF s = "" THEN ""
    ELSE Translate(Head(s), AccentChars, PlainChars) \o stripDiacritics(Tail(s))

\* (s || '').toString().normalize('NFD').replace(/\p{Diacritic}/gu, '').toLowerCase()
normalize(s) == IF s = NULL THEN "" ELSE stripDiacritics(toLowerCase(s))

includes(s, t) ==
    \E i \in 1..(Len(s) - Len(t) + 1) : SubSeq(s, i, i + Len(t) - 1) = t

some(list, s) == \E t \in list : includes(s, t)

IsSpace(c) == c = " "

RECURSIVE trimStart(_)
trimStart(s) ==
    IF s = "" THEN "" ELSE IF IsSpace(Head(s)) THEN trimStart(Tail(s)) ELSE s

RECURSIVE trimEnd(_)
trimEnd(s) ==
    IF s = "" THEN ""
    ELSE IF IsSpace(CharAt(s, Len(s))) THEN trimEnd(SubSeq(s, 1, Len(s) - 1))
    ELSE s

trim(s) == trimEnd(trimStart(s))

\* query.split(/\s+/), without the empty strings a leading or trailing blank
\* yields: every caller filters the words on length >= 2.
RECURSIVE splitWords(_, _)
splitWords(s, word) ==
    IF s = "" THEN (IF word = "" THEN <<>> ELSE <<word>>)
    ELSE IF IsSpace(Head(s))
         THEN (IF word = "" THEN <<>> ELSE <<word>>) \o splitWords(Tail(s), "")
         ELSE splitWords(Tail(s), word \o Head(s))

split(s) == splitWords(s, "")

\* /[a-záàâãéèêíìîóòôõúùûç]/i.test(w)
hasLetter(w) ==
    \E i \in 1..Len(w) :
        \E j \in 1..Len(LowerChars) :
            CharAt(LowerChars, j) = Translate(CharAt(w, i), UpperChars, LowerChars)

\* pre, then \s+, then one of posts: the shape of the regular expressions
\* /quantos?\s+(cadastros?|...)/ and /how\s+many/
RECURSIVE skipSpaces(_, _)
skipSpaces(s, i) ==
    IF i <= Len(s) /\ IsSpace(CharAt(s, i)) THEN skipSpaces(s, i + 1) ELSE i

matchSpaced(s, pre, posts) ==
    \E i \in 1..(Len(s) - Len(pre) + 1) :
        /\ SubSeq(s, i, i + Len(pre) - 1) = pre
        /\ LET j == i + Len(pre)
               k == skipSpaces(s, j)
           IN  /\ k > j
               /\ \E p \in posts : SubSeq(s, k, k + Len(p) - 1) = p

SeqContains(seq, x) == \E i \in 1..Len(seq) : seq[i] = x

\* const i = a.indexOf(x); if (i > -1) a.splice(i, 1)
RemoveFirst(seq, x) ==
    IF SeqContains(seq, x)
    THEN LET i == CHOOSE k \in 1..Len(seq) :
                      seq[k] = x /\ \A m \in 1..(k - 1) : seq[m] # x
         IN  SubSeq(seq, 1, i - 1) \o SubSeq(seq, i + 1, Len(seq))
    ELSE seq

\* if (!a.includes(x)) a.push(x)
PushUnique(seq, x) == IF SeqContains(seq, x) THEN seq ELSE Append(seq, x)

-----------------------------------------------------------------------------
(* QueryAnalyzer: the pattern tables and the pure helpers.                 *)

nameSearchVerbsHeuristic ==
    {"encontre", "encontrar", "encontra", "busque", "buscar", "busca", "find",
     "search", "procure", "procurar", "procura", "mostre", "mostrar", "mostra",
     "show", "exiba", "exibir", "traga", "trazer", "quem e", "quem eh"}

commonWordsHeuristic ==
    {"o", "a", "os", "as", "de", "do", "da", "dos", "das", "em", "no", "na",
     "the", "an"}

listVerbs ==
    {"list", "show", "names", "display", "listar", "lista", "mostre", "mostrar",
     "exibir", "exiba", "traga", "me mostre", "me traga"}

residentNouns ==
    {"resident", "citizen", "residente", "morador", "moradores", "cidadao",
     "cidadaos", "cidadas"}

satisfiedTokens ==
    {"dissatisfied", "unsatisfied", "insatisfied", "unhappy", "satisfied",
     "insatisfeito", "insatisfeitos", "insatisfacao", "satisfeito", "satisfeitos"}

participationTokens ==
    {"interested", "interessado", "interessados", "participated", "participar",
     "participantes", "participacao", "participaria"}

\* words.filter(w => w.length >= 2 && /[a-z...]/i.test(w)) over the words
\* that are neither common words nor search verbs
nameLikeWords(q, common, verbs) ==
    LET words == split(q)
    IN  { i \in 1..Len(words) :
            /\ normalize(words[i]) \notin common
            /\ normalize(words[i]) \notin verbs
            /\ Len(words[i]) >= 2
            /\ hasLetter(words[i]) }

analyzeQueryHeuristically(q) ==
    LET qn == normalize(q)
        hasNameSearchVerb == some(nameSearchVerbsHeuristic, qn)
        hasListVerb == some(listVerbs, qn)
        hasResidentNoun == some(residentNouns, qn)
        hasSatisfiedToken == some(satisfiedTokens, qn)
        hasParticipationToken == some(participationTokens, qn)
        needs1 == IF \/ includes(qn, "total") \/ includes(qn, "quantos")
                     \/ includes(qn, "quantas") \/ includes(qn, "cadastros")
                     \/ includes(qn, "registros") \/ includes(qn, "how many")
                     \/ includes(qn, "count")
                  THEN <<"total_count">> ELSE <<>>
        intent == IF \/ includes(qn, "send") \/ includes(qn, "message")
                     \/ includes(qn, "notify") \/ includes(qn, "contact")
                  THEN "notification"
                  ELSE IF \/ includes(qn, "system") \/ includes(qn, "health")
                          \/ includes(qn, "status") \/ includes(qn, "export")
                       THEN "ticket"
                       ELSE "knowledge"
        needs2 == IF \/ includes(qn, "dissatisfied") \/ includes(qn, "insatisf")
                     \/ includes(qn, "insatisfeito")
                  THEN Append(needs1, "dissatisfied") ELSE needs1
        needs3 == IF /\ (includes(qn, "satisfied") \/ includes(qn, "satisfeito"))
                     /\ ~(includes(qn, "dissatisfied") \/ includes(qn, "insatisfeito"))
                  THEN Append(needs2, "satisfied") ELSE needs2
        needs4 == IF \/ includes(qn, "particip") \/ includes(qn, "interested")
                     \/ includes(qn, "interessad")
                  THEN Append(needs3, "participation") ELSE needs3
        needs5 == IF \/ includes(qn, "neighborhood") \/ includes(qn, "equity")
                     \/ includes(qn, "bairro")
                  THEN Append(needs4, "geographic") ELSE needs4
    IN  IF /\ hasNameSearchVerb
           /\ nameLikeWords(q, commonWordsHeuristic, nameSearchVerbsHeuristic) # {}
        THEN [primaryIntent |-> "knowledge", queryType |-> "listing",
              dataNeeds |-> <<"name_search">>, urgency |-> "normal"]
        ELSE IF hasListVerb /\ (hasResidentNoun \/ hasSatisfiedToken \/ hasParticipationToken)
        THEN [primaryIntent |-> "notification", queryType |-> "listing",
              dataNeeds |-> <<>>, urgency |-> "normal"]
        ELSE IF /\ (includes(qn, "clicked") \/ includes(qn, "abandoned"))
                /\ (includes(qn, "didn") \/ includes(qn, "not") \/ includes(qn, "survey"))
        THEN [primaryIntent |-> "notification", queryType |-> "abandonment",
              dataNeeds |-> <<"abandonment">>, urgency |-> "normal"]
        ELSE [primaryIntent |-> intent, queryType |-> "analysis",
              dataNeeds |-> needs5, urgency |-> "normal"]

intentMap ==
    [satisfaction |-> "knowledge", engagement |-> "notification",
     geographic |-> "knowledge", operational |-> "ticket",
     benchmarking |-> "knowledge", survey |-> "knowledge"]

\* intentMap[canonicalIntent] || null
mapCanonicalIntent(canonicalIntent) ==
    IF canonicalIntent \in DOMAIN intentMap THEN intentMap[canonicalIntent] ELSE NULL

nameSearchVerbs ==
    {"encontre", "encontrar", "encontra", "busque", "buscar", "busca", "find",
     "search", "procure", "procurar", "procura", "mostre", "mostrar", "mostra",
     "show", "exiba", "exibir", "traga", "trazer", "quem e", "quem eh", "quem é",
     "localize", "localizar"}

commonWords ==
    {"o", "a", "os", "as", "de", "do", "da", "dos", "das", "em", "no", "na",
     "the", "an", "me", "meu", "minha", "meus", "minhas", "um", "uma", "uns",
     "umas", "que", "qual", "quais"}

\* detectNameSearch(query).isNameSearch
detectNameSearch(q) ==
    /\ some(nameSearchVerbs, normalize(q))
    /\ nameLikeWords(q, commonWords, nameSearchVerbs) # {}

statisticalTerms ==
    {"total", "quantos", "quantas", "how many", "how much", "count", "numero",
     "número", "registros", "registro", "cadastros", "cadastro", "contagem",
     "estatistica", "estatística", "dados", "database", "atualmente", "atual",
     "currently", "hoje", "today"}

databaseTerms ==
    {"cadastro", "cadastros", "registro", "registros", "contato", "contatos",
     "contact", "contacts", "pessoa", "pessoas", "cidad", "citizen", "resident",
     "residente", "morador", "moradores"}

isStatisticalOrOperationalQuery(q) ==
    LET qn == normalize(q)
        hasStatisticalTerm == some(statisticalTerms, qn)
        hasDatabaseTerm == some(databaseTerms, qn)
        hasTotalQuery ==
            \/ matchSpaced(qn, "total", {""})
            \/ matchSpaced(qn, "quanto", {"cadastro", "registro", "contato", "pessoa"})
            \/ matchSpaced(qn, "quantos", {"cadastro", "registro", "contato", "pessoa"})
            \/ matchSpaced(qn, "how", {"many"})
    IN  \/ hasStatisticalTerm /\ hasDatabaseTerm
        \/ hasTotalQuery
        \/ hasStatisticalTerm /\ (includes(qn, "cadastr") \/ includes(qn, "registr"))

municipalTokens ==
    {"satisfacao", "satisfação", "engajamento", "participacao", "participação",
     "bairro", "equidade", "municip", "cidada", "cidadã", "cidadão", "governanca",
     "governança", "resposta", "taxa", "survey", "residente", "morador",
     "cadastro", "cadastros", "registro", "registros", "total", "quantos",
     "quantas", "contagem", "estatistica", "estatística"}

\* A faulty safeguard: every query counts as holding a domain token
hasMunicipalDomainTokens_Always(q) == TRUE

hasMunicipalDomainTokens(q) == some(municipalTokens, toLowerCase(q))

createDefaultAnalysis(reason) ==
    [scope |-> [inScope |-> FALSE, reason |-> reason, confidence |-> 0],
     intent |-> "knowledge",
     queryType |-> "analysis",
     dataNeeds |-> <<>>,
     urgency |-> "normal",
     blocked |-> (reason = "Empty query")]

-----------------------------------------------------------------------------
(* ScopeClassifier.classify.  `response` is what the provider call gave:   *)
(* [kind |-> "error"] for a rejected request (network, 401/403, timeout),  *)
(* or [kind |-> "raw", parsed |-> p] where p is what safeParseJson makes   *)
(* of the text: NoValue (null) or the parsed object.  An optional number   *)
(* of the object is a sequence of length 0 or 1.                           *)

classifierTokens ==
    {"satisfacao", "satisfação", "engajamento", "participacao", "participação",
     "bairro", "equidade", "municip", "cidada", "cidadã", "cidadão", "governanca",
     "governança", "resposta", "taxa", "survey", "residente", "morador"}

\* A faulty clamp: the provider's confidence is passed through as sent
Clamp01_Identity(c) == c

Clamp01(c) == IF c < 0 THEN 0 ELSE IF c > 100 THEN 100 ELSE c

classify(q, isEnabled, response) ==
    IF q = NULL \/ trim(q) = ""
    THEN [inScope |-> FALSE, confidence |-> 0, categories |-> <<>>,
          reason |-> "Empty query"]
    ELSE IF ~isEnabled
    THEN [inScope |-> TRUE, confidence |-> 50, categories |-> <<"unknown">>,
          reason |-> "LLM scope classifier disabled (no API key)"]
    ELSE IF response.kind = "error"
    THEN [inScope |-> TRUE, confidence |-> 50, categories |-> <<"error-fallback">>,
          reason |-> "Classifier call failed"]
    ELSE IF response.parsed = NoValue
    THEN [inScope |-> TRUE, confidence |-> 40, categories |-> <<"unparsed">>,
          reason |-> "Could not parse classifier JSON"]
    ELSE LET parsed == response.parsed
             confidence == IF Len(parsed.confidence) = 1 THEN parsed.confidence[1]
                           ELSE IF Len(parsed.score) = 1 THEN parsed.score[1]
                           ELSE 50
             matches == { t \in classifierTokens : includes(toLowerCase(q), t) }
             flip == parsed.inScope /\ confidence < 65 /\ matches = {}
         IN  [inScope |-> parsed.inScope /\ ~flip,
              confidence |-> Clamp01(confidence),
              categories |-> parsed.categories,
              reason |-> IF flip
                         THEN "Low confidence and no municipal domain tokens detected"
                         ELSE "model"]

-----------------------------------------------------------------------------
(* QueryAnalyzer.analyzeQuery.                                             *)

analysisKeywords ==
    {"análise", "analysis", "relatório", "report", "estatística", "statistics",
     "satisfação", "satisfaction", "engajamento", "engagement", "bairro",
     "neighborhood", "bairros", "neighborhoods", "resumo", "summary", "overview",
     "visão", "view", "visao", "problema", "problem", "problemas", "problems",
     "questão", "questao", "question", "questões", "questoes", "questions",
     "participação", "participacao", "participation", "idade", "age",
     "faixa etária", "faixa etaria", "age bracket"}

displayVerbs ==
    {"mostrar", "mostre", "exibir", "exiba", "show", "display", "listar", "lista",
     "list", "trazer", "traga", "bring", "apresentar", "apresente", "present"}

normalizedKeywords == { normalize(kw) : kw \in analysisKeywords }
normalizedVerbs == { normalize(v) : v \in displayVerbs }

residentFilterKeywords ==
    {"insatisfeito", "insatisfeitos", "dissatisfied", "unsatisfied",
     "nao querem participar", "nao quer participar", "not interested",
     "nao interessados", "nao interessado", "sem interesse", "satisfeito",
     "satisfeitos", "satisfied", "interessado", "interessados", "interested",
     "querem participar"}

filterVerbs ==
    {"encontrar", "encontre", "encontra", "find", "buscar", "busque", "listar",
     "lista", "list", "mostrar", "mostre", "show", "exibir", "exiba", "display",
     "trazer", "traga"}

InScope(confidence, categories, canonicalIntent, reason) ==
    [inScope |-> TRUE, confidence |-> confidence, categories |-> categories,
     canonicalIntent |-> canonicalIntent, reason |-> reason]

\* Step 0: statistical/operational pre-check (l. 587-613)
statisticalResult(q) ==
    LET h == analyzeQueryHeuristically(q)
    IN  [scope |-> InScope(90, <<"operational">>, "operational",
                           "Statistical/operational query about municipal database"),
         intent |-> h.primaryIntent,
         queryType |-> h.queryType,
         dataNeeds |-> h.dataNeeds,
         urgency |-> h.urgency,
         blocked |-> FALSE]

\* Step 0.25, first branch: analysis keyword and display verb (l. 645-687)
analysisVerbResult(q) ==
    LET qn == normalize(q)
        h == analyzeQueryHeuristically(q)
        n0 == RemoveFirst(h.dataNeeds, "name_search")
        n1 == IF \/ includes(qn, "satisf") \/ includes(qn, "satisfação")
                 \/ includes(qn, "satisfaction")
              THEN PushUnique(n0, "satisfaction_analysis") ELSE n0
        n2 == IF includes(qn, "bairro") \/ includes(qn, "neighborhood")
              THEN PushUnique(n1, "geographic") ELSE n1
        n3 == IF includes(qn, "idade") \/ includes(qn, "age") \/ includes(qn, "faixa")
              THEN PushUnique(n2, "age_analysis") ELSE n2
    IN  [scope |-> InScope(95, <<"survey", "analysis">>, "satisfaction",
                           "Analysis/report query detected - requesting data analysis, not name search"),
         intent |-> "knowledge",
         queryType |-> "analysis",
         dataNeeds |-> n3,
         urgency |-> "normal",
         blocked |-> FALSE]

\* Step 0.25, second branch: analysis keyword and preposition (l. 690-710)
analysisPrepositionResult(q) ==
    LET h == analyzeQueryHeuristically(q)
    IN  [scope |-> InScope(90, <<"survey", "analysis">>, "satisfaction",
                           "Analysis query pattern detected (analysis keyword + preposition)"),
         intent |-> "knowledge",
         queryType |-> "analysis",
         dataNeeds |-> h.dataNeeds,
         urgency |-> "normal",
         blocked |-> FALSE]

\* Step 0.4: resident filter pre-check (l. 738-792)
residentFilterResult(q) ==
    LET qn == normalize(q)
        h == analyzeQueryHeuristically(q)
        hasFilterVerb == some(filterVerbs, qn)
        n0 == RemoveFirst(h.dataNeeds, "name_search")
        dissat == includes(qn, "insatisf") \/ includes(qn, "dissatisfied")
        partic == includes(qn, "particip") \/ includes(qn, "interessad")
        listing == /\ hasFilterVerb
                   /\ \/ includes(qn, "listar") \/ includes(qn, "mostrar")
                      \/ includes(qn, "list") \/ includes(qn, "show")
        negative == \/ includes(qn, "nao") \/ includes(qn, "not")
                    \/ includes(qn, "sem interesse")
    IN  [scope |-> InScope(95, <<"survey", "engagement">>, "survey",
                           "Resident filter query detected - requesting filtered resident list, not name search"),
         intent |-> IF dissat THEN (IF listing THEN "notification" ELSE "knowledge")
                    ELSE IF partic THEN "notification"
                    ELSE h.primaryIntent,
         queryType |-> IF dissat THEN (IF listing THEN "listing" ELSE "analysis")
                       ELSE IF partic THEN "listing"
                       ELSE h.queryType,
         dataNeeds |-> IF dissat THEN PushUnique(n0, "dissatisfied")
                       ELSE IF partic
                            THEN (IF negative
                                  THEN PushUnique(n0, "participation_not_interested")
                                  ELSE PushUnique(n0, "participation_interested"))
                            ELSE n0,
         urgency |-> h.urgency,
         blocked |-> FALSE]

\* Step 0.5: name search pre-check (l. 796-821)
nameSearchResult(q) ==
    LET h == analyzeQueryHeuristically(q)
    IN  [scope |-> InScope(95, <<"survey", "engagement">>, "survey",
                           "Name/resident search query - core municipal intelligence capability"),
         intent |-> "knowledge",
         queryType |-> h.queryType,
         dataNeeds |-> PushUnique(h.dataNeeds, "name_search"),
         urgency |-> h.urgency,
         blocked |-> FALSE]

\* A faulty cascade: the statistical rule is left to the classifier path
heuristicRule_DeferStatistical(q) ==
    LET qn == normalize(q)
        hasAnalysisKeyword == some(normalizedKeywords, qn)
        hasResidentNoun == includes(qn, "morador") \/ includes(qn, "resident")
                           \/ includes(qn, "cidada")
    IN  IF q = NULL \/ trim(q) = "" THEN "empty"
        ELSE IF hasAnalysisKeyword /\ some(normalizedVerbs, qn) THEN "analysis_verb"
        ELSE IF hasAnalysisKeyword
                /\ (includes(qn, "de") \/ includes(qn, "do") \/ includes(qn, "da"))
             THEN "analysis_preposition"
        ELSE IF some(residentFilterKeywords, qn)
                /\ (some(filterVerbs, qn) \/ hasResidentNoun)
             THEN "resident_filter"
        ELSE IF detectNameSearch(q) THEN "name_search"
        ELSE "none"

\* A faulty cascade: the name-search rule is tried before the statistical rule
heuristicRule_NameSearchFirst(q) ==
    LET qn == normalize(q)
        hasAnalysisKeyword == some(normalizedKeywords, qn)
        hasResidentNoun == includes(qn, "morador") \/ includes(qn, "resident")
                           \/ includes(qn, "cidada")
    IN  IF q = NULL \/ trim(q) = "" THEN "empty"
        ELSE IF detectNameSearch(q) THEN "name_search"
        ELSE IF isStatisticalOrOperationalQuery(q) THEN "statistical"
        ELSE IF hasAnalysisKeyword /\ some(normalizedVerbs, qn) THEN "analysis_verb"
        ELSE IF hasAnalysisKeyword
                /\ (includes(qn, "de") \/ includes(qn, "do") \/ includes(qn, "da"))
             THEN "analysis_preposition"
        ELSE IF some(residentFilterKeywords, qn)
                /\ (some(filterVerbs, qn) \/ hasResidentNoun)
             THEN "resident_filter"
        ELSE "none"

\* A faulty cascade: the name-search rule is left to the classifier path
heuristicRule_DeferNameSearch(q) ==
    LET qn == normalize(q)
        hasAnalysisKeyword == some(normalizedKeywords, qn)
        hasResidentNoun == includes(qn, "morador") \/ includes(qn, "resident")
                           \/ includes(qn, "cidada")
    IN  IF q = NULL \/ trim(q) = "" THEN "empty"
        ELSE IF isStatisticalOrOperationalQuery(q) THEN "statistical"
        ELSE IF hasAnalysisKeyword /\ some(normalizedVerbs, qn) THEN "analysis_verb"
        ELSE IF hasAnalysisKeyword
                /\ (includes(qn, "de") \/ includes(qn, "do") \/ includes(qn, "da"))
             THEN "analysis_preposition"
        ELSE IF some(residentFilterKeywords, qn)
                /\ (some(filterVerbs, qn) \/ hasResidentNoun)
             THEN "resident_filter"
        ELSE "none"

\* The rule of the cascade that answers q before the classifier is asked, or
\* "none" (the order of the if-statements of l. 583-821).
heuristicRule(q) ==
    LET qn == normalize(q)
        hasAnalysisKeyword == some(normalizedKeywords, qn)
        hasDisplayVerb == some(normalizedVerbs, qn)
        hasFilterKeyword == some(residentFilterKeywords, qn)
        hasFilterVerb == some(filterVerbs, qn)
        hasResidentNoun ==
            \/ includes(qn, "morador") \/ includes(qn, "moradores")
            \/ includes(qn, "resident") \/ includes(qn, "residents")
            \/ includes(qn, "cidadao") \/ includes(qn, "cidadaos")
            \/ includes(qn, "cidadas")
    IN  IF q = NULL \/ trim(q) = "" THEN "empty"
        ELSE IF isStatisticalOrOperationalQuery(q) THEN "statistical"
        ELSE IF hasAnalysisKeyword /\ hasDisplayVerb THEN "analysis_verb"
        ELSE IF hasAnalysisKeyword
                /\ (includes(qn, "de") \/ includes(qn, "do") \/ includes(qn, "da"))
             THEN "analysis_preposition"
        ELSE IF hasFilterKeyword /\ (hasFilterVerb \/ hasResidentNoun)
             THEN "resident_filter"
        ELSE IF detectNameSearch(q) THEN "name_search"
        ELSE "none"

\* What analyzeQuery returns without asking the classifier (rule # "none")
heuristicResult(q, rule) ==
    CASE rule = "empty" -> createDefaultAnalysis("Empty query")
      [] rule = "statistical" -> statisticalResult(q)
      [] rule = "analysis_verb" -> analysisVerbResult(q)
      [] rule = "analysis_preposition" -> analysisPrepositionResult(q)
      [] rule = "resident_filter" -> residentFilterResult(q)
      [] rule = "name_search" -> nameSearchResult(q)

blockedResult(reason, confidence) ==
    [scope |-> [inScope |-> FALSE, reason |-> reason, confidence |-> confidence],
     intent |-> "out_of_scope",
     queryType |-> "blocked",
     dataNeeds |-> <<>>,
     urgency |-> "normal",
     blocked |-> TRUE]

\* Steps 2-5 and the final return, once classify has answered (l. 826-928)
classifiedResult(q, sc) ==
    LET h0 == analyzeQueryHeuristically(q)
        canonical == IF "canonical_intent" \in DOMAIN sc
                     THEN sc.canonical_intent ELSE NULL
        mapped == IF sc.inScope /\ canonical # NULL
                  THEN mapCanonicalIntent(canonical) ELSE NULL
        primaryIntent == IF mapped # NULL THEN mapped ELSE h0.primaryIntent
    IN  IF sc.inScope = FALSE
        THEN IF isStatisticalOrOperationalQuery(q)
             THEN [scope |-> InScope(85, <<"operational", "survey">>, "operational",
                                     "Statistical query about municipal database (heuristic override)"),
                   intent |-> h0.primaryIntent,
                   queryType |-> h0.queryType,
                   dataNeeds |-> h0.dataNeeds,
                   urgency |-> h0.urgency,
                   blocked |-> FALSE]
             ELSE IF detectNameSearch(q)
             THEN [scope |-> InScope(90, <<"survey", "engagement">>, "survey",
                                     "Name/resident search query (heuristic override)"),
                   intent |-> "knowledge",
                   queryType |-> h0.queryType,
                   dataNeeds |-> PushUnique(h0.dataNeeds, "name_search"),
                   urgency |-> h0.urgency,
                   blocked |-> FALSE]
             ELSE blockedResult(sc.reason, sc.confidence)
        ELSE IF sc.confidence < 65 /\ ~hasMunicipalDomainTokens(q)
        THEN blockedResult("Low-confidence classification and no municipal domain tokens detected",
                           sc.confidence)
        ELSE [scope |-> InScope(sc.confidence, sc.categories, canonical, sc.reason),
              intent |-> primaryIntent,
              queryType |-> h0.queryType,
              dataNeeds |-> h0.dataNeeds,
              urgency |-> h0.urgency,
              blocked |-> FALSE]

\* analyzeQuery as a function of the query and of what the provider answers
analyzeQuery(q, isEnabled, response) ==
    LET rule == heuristicRule(q)
    IN  IF rule # "none" THEN heuristicResult(q, rule)
        ELSE classifiedResult(q, classify(q, isEnabled, response))

-----------------------------------------------------------------------------
(* Texts of the response candidates.  A text is known by its origin, its   *)
(* length, whether it is blank (trim().length = 0) and the resident names  *)
(* it contains literally: these are all the arbitration reads of a text.   *)

Text(src, len, names, blank) ==
    [src |-> src, len |-> len, names |-> names, blank |-> blank]

\* text.includes(name)
mentions(text, name) == name \in text.names

MaxResidents == 2
ResidentPool == <<"Ana", "Rui", "Eva", "Lia", "Noa">>
Stranger == "Zoe"

RedirectMessage == Text("redirect", 190, {}, FALSE)
AnalysisCompleted == Text("default", 18, {}, FALSE)
ErrorMessage == Text("error", 60, {}, FALSE)

-----------------------------------------------------------------------------
(* The agents behind routeToAgent.  `body` is how the body of processQuery *)
(* ended: [kind |-> "ok", analysis |-> a] or [kind |-> "exception"].      *)

\* IntelligentKnowledgeAgent.processQuery: try { ... } catch { createErrorResponse }
knowledgeAgent(q, body) ==
    IF body.kind = "ok"
    THEN [kind |-> "return",
          value |-> [agent |-> "Knowledge Agent", success |-> TRUE,
                     analysis |-> body.analysis]]
    ELSE [kind |-> "return",
          value |-> [agent |-> "Knowledge Agent", success |-> FALSE,
                     analysis |-> [summary |-> Text("agent", 100, {}, FALSE),
                                   residents |-> <<>>,
                                   type |-> "error_fallback"]]]

\* IntelligentNotificationAgent.processQuery: the same try/catch
notificationAgent(q, body) ==
    IF body.kind = "ok"
    THEN [kind |-> "return",
          value |-> [agent |-> "Notification Agent", success |-> TRUE,
                     analysis |-> body.analysis]]
    ELSE [kind |-> "return",
          value |-> [agent |-> "Notification Agent", success |-> FALSE,
                     analysis |-> [summary |-> Text("agent", 100, {}, FALSE),
                                   residents |-> <<>>,
                                   type |-> Undefined]]]

\* agents/ticketAgent: a consumer whose exception reaches routeToAgent
ticketAgent(q, body) ==
    IF body.kind = "ok"
    THEN [kind |-> "return",
          value |-> [agent |-> "Ticket Agent", success |-> TRUE,
                     analysis |-> body.analysis]]
    ELSE [kind |-> "throw", error |-> "ticket agent failed"]

\* routeToAgent: the switch on the intent; its catch logs and rethrows
routeToAgent(q, qa, body) ==
    CASE qa.intent = "notification" -> notificationAgent(q, body)
      [] qa.intent = "knowledge" -> knowledgeAgent(q, body)
      [] qa.intent = "ticket" -> ticketAgent(q, body)
      [] OTHER -> knowledgeAgent(q, body)

-----------------------------------------------------------------------------
(* IntelligentOrchestrator.                                                *)

\* !!(apiKey && typeof apiKey === 'string' && apiKey.trim().length > 0)
validateApiKey(apiKey) == apiKey # Undefined /\ Len(trim(apiKey)) > 0

\* A faulty gate: the credential is read again at every request
shouldEnhance_ReadingEnv(hasKey, currentEnv, intent) ==
    validateApiKey(currentEnv) /\ intent # "ticket"

\* if (this.hasValidApiKey && queryAnalysis.intent !== 'ticket')   (l. 69)
shouldEnhance(hasKey, currentEnv, intent) == hasKey /\ intent # "ticket"

\* The early return of l. 45-56
blockedResponse(q, qa) ==
    [query |-> q,
     intent |-> "out_of_scope",
     response |-> RedirectMessage,
     success |-> TRUE,
     scope |-> qa.scope,
     residents |-> <<>>]

createErrorResponse(q, error) ==
    [query |-> q,
     error |-> error,
     response |-> ErrorMessage,
     residents |-> <<>>,
     success |-> FALSE]

\* A faulty catch: the error is thrown on to the caller
onCriticalError_Rethrow(q, error) == [kind |-> "thrown", error |-> error]

\* The catch of l. 101-104
onCriticalError(q, error) ==
    [kind |-> "returned", value |-> createErrorResponse(q, error)]

qualityLevel(llm) == IF llm = NoValue THEN "none" ELSE llm.quality.level

\* A faulty score: the bonuses of good and excellent are exchanged
calculateConfidence_BonusExchanged(agent, llm) ==
    LET level == IF llm = NoValue THEN "none" ELSE llm.quality.level
        withResidents == IF Len(agent.analysis.residents) > 0 THEN 85 ELSE 70
        withQuality == IF level = "excellent" THEN withResidents + 5
                       ELSE IF level = "good" THEN withResidents + 10
                       ELSE withResidents
    IN  IF withQuality < 95 THEN withQuality ELSE 95

calculateConfidence(agent, llm) ==
    LET base == 70
        withResidents == IF Len(agent.analysis.residents) > 0 THEN base + 15 ELSE base
        withQuality == IF qualityLevel(llm) = "excellent" THEN withResidents + 10
                       ELSE IF qualityLevel(llm) = "good" THEN withResidents + 5
                       ELSE withResidents
    IN  IF withQuality < 95 THEN withQuality ELSE 95

\* A faulty grounding check: any retrieved resident counts
hasRealData_AnyResident(agent, llm) == Len(agent.analysis.residents) > 0

\* residents.some(r => llmResult.response.includes(r.name))
hasRealData(agent, llm) ==
    \E i \in 1..Len(agent.analysis.residents) :
        mentions(llm.response, agent.analysis.residents[i])

\* A faulty arbitration: the 500-character limit of a name search is dropped
arbitrate_NoLengthLimit(qa, agent, llm) ==
    LET isNameSearch == SeqContains(qa.dataNeeds, "name_search")
        summary == agent.analysis.summary
        primaryResponse == IF summary.len = 0 THEN AnalysisCompleted ELSE summary
        level == IF llm = NoValue THEN "none" ELSE llm.quality.level
        grounded == \E i \in 1..Len(agent.analysis.residents) :
                        mentions(llm.response, agent.analysis.residents[i])
    IN  IF isNameSearch /\ agent.analysis.type = "name_search_result"
        THEN [response |-> summary, responseQuality |-> "focused_search"]
        ELSE IF level = "excellent" \/ level = "good"
        THEN IF isNameSearch
             THEN IF grounded
                  THEN [response |-> llm.response, responseQuality |-> "llm-enhanced"]
                  ELSE [response |-> primaryResponse, responseQuality |-> "focused_search"]
             ELSE IF grounded \/ 2 * llm.response.len > 3 * primaryResponse.len
                  THEN [response |-> llm.response, responseQuality |-> "llm-enhanced"]
                  ELSE [response |-> primaryResponse, responseQuality |-> "data-driven"]
        ELSE IF llm # NoValue /\ isNameSearch /\ ~llm.response.blank
                /\ llm.response.len < 500
        THEN [response |-> llm.response, responseQuality |-> "llm-enhanced"]
        ELSE [response |-> primaryResponse, responseQuality |-> "data-driven"]

\* A faulty arbitration: a general query takes L already at 1.5 times D
arbitrate_LengthAtLeast(qa, agent, llm) ==
    LET isNameSearch == SeqContains(qa.dataNeeds, "name_search")
        summary == agent.analysis.summary
        primaryResponse == IF summary.len = 0 THEN AnalysisCompleted ELSE summary
        level == IF llm = NoValue THEN "none" ELSE llm.quality.level
        grounded == \E i \in 1..Len(agent.analysis.residents) :
                        mentions(llm.response, agent.analysis.residents[i])
    IN  IF isNameSearch /\ agent.analysis.type = "name_search_result"
        THEN [response |-> summary, responseQuality |-> "focused_search"]
        ELSE IF level = "excellent" \/ level = "good"
        THEN IF isNameSearch
             THEN IF grounded /\ llm.response.len < 500
                  THEN [response |-> llm.response, responseQuality |-> "llm-enhanced"]
                  ELSE [response |-> primaryResponse, responseQuality |-> "focused_search"]
             ELSE IF grounded \/ 2 * llm.response.len >= 3 * primaryResponse.len
                  THEN [response |-> llm.response, responseQuality |-> "llm-enhanced"]
                  ELSE [response |-> primaryResponse, responseQuality |-> "data-driven"]
        ELSE IF llm # NoValue /\ isNameSearch /\ ~llm.response.blank
                /\ llm.response.len < 500
        THEN [response |-> llm.response, responseQuality |-> "llm-enhanced"]
        ELSE [response |-> primaryResponse, responseQuality |-> "data-driven"]

\* The text and the responseQuality label chosen by l. 306-355
arbitrate(qa, agent, llm) ==
    LET isNameSearch == SeqContains(qa.dataNeeds, "name_search")
        summary == agent.analysis.summary
        primaryResponse == IF summary.len = 0 THEN AnalysisCompleted ELSE summary
        level == qualityLevel(llm)
    IN  IF isNameSearch /\ agent.analysis.type = "name_search_result"
        THEN [response |-> summary, responseQuality |-> "focused_search"]
        ELSE IF level = "excellent" \/ level = "good"
        THEN IF isNameSearch
             THEN IF hasRealData(agent, llm) /\ llm.response.len < 500
                  THEN [response |-> llm.response, responseQuality |-> "llm-enhanced"]
                  ELSE [response |-> primaryResponse, responseQuality |-> "focused_search"]
             ELSE IF \/ hasRealData(agent, llm)
                     \/ 2 * llm.response.len > 3 * primaryResponse.len
                  THEN [response |-> llm.response, responseQuality |-> "llm-enhanced"]
                  ELSE [response |-> primaryResponse, responseQuality |-> "data-driven"]
        ELSE IF llm # NoValue /\ isNameSearch
        THEN IF /\ llm.response.len > 0
                /\ ~llm.response.blank
                /\ llm.response.len < 500
             THEN [response |-> llm.response, responseQuality |-> "llm-enhanced"]
             ELSE [response |-> primaryResponse, responseQuality |-> "data-driven"]
        ELSE [response |-> primaryResponse, responseQuality |-> "data-driven"]

constructFinalResponse(q, qa, ctx, agent, llm) ==
    LET chosen == arbitrate(qa, agent, llm)
        enhancedByLlm == chosen.responseQuality = "llm-enhanced"
    IN  [query |-> q,
         intent |-> qa.intent,
         response |-> chosen.response,
         residents |-> agent.analysis.residents,
         success |-> TRUE,
         confidence |-> calculateConfidence(agent, llm),
         responseQuality |-> chosen.responseQuality,
         llmEnhanced |-> enhancedByLlm,
         statistics |-> [totalContacts |-> ctx.total],
         provenance |-> [agent |-> agent.agent,
                         agentType |-> qa.intent,
                         source |-> IF enhancedByLlm THEN "knowledge_agent+claude_llm"
                                    ELSE "knowledge_agent",
                         llm |-> [used |-> llm # NoValue /\ enhancedByLlm,
                                  quality |-> qualityLevel(llm)]]]

\* ScopeClassifier constructor: this.enabled = !!this.apiKey
classifierEnabled(rawApiKey) == rawApiKey # Undefined /\ Len(trim(rawApiKey)) > 0

-----------------------------------------------------------------------------
(* ResidentFilterService: determineFilterType and isNameSearchQuery.       *)

filterSearchVerbs ==
    {"encontre", "encontrar", "encontra", "busque", "buscar", "busca", "find",
     "search", "procure", "procurar", "procura", "mostre", "mostrar", "mostra",
     "show", "exiba", "exibir", "traga", "trazer", "quem e", "quem eh",
     "quem e o", "quem eh o"}

\* The words left after the common words, the search verbs and every word
\* that holds, or is held by, an analysis keyword are dropped
filterNameWords(q) ==
    LET words == split(q)
    IN  { i \in 1..Len(words) :
            /\ normalize(words[i]) \notin commonWords
            /\ normalize(words[i]) \notin filterSearchVerbs
            /\ ~\E kw \in analysisKeywords :
                   \/ includes(normalize(words[i]), kw)
                   \/ includes(kw, normalize(words[i]))
            /\ Len(words[i]) >= 2
            /\ hasLetter(words[i]) }

\* ResidentFilterService.isNameSearchQuery
isNameSearchQuery(q) ==
    LET qn == normalize(q)
    IN  /\ ~some(analysisKeywords, qn)
        /\ some(filterSearchVerbs, qn)
        /\ filterNameWords(q) # {}

\* A faulty order: the name search is tried before the participation filters
determineFilterType_NameSearchFirst(q) ==
    LET qn == normalize(q)
        negated == some({"nao", "não", "not", "sem interesse"}, qn)
    IN  IF isNameSearchQuery(q) THEN "name_search"
        ELSE IF includes(qn, "particip") /\ negated
        THEN "participation_not_interested"
        ELSE IF some({"particip", "interested", "interessad", "event"}, qn) /\ ~negated
        THEN "participation_interested"
        ELSE IF some({"dissatisfied", "unsatisfied", "insatisfied", "unhappy",
                      "insatisf"}, qn)
        THEN "dissatisfied"
        ELSE IF some({"satisfied", "satisfeito"}, qn) THEN "satisfied"
        ELSE IF some({"list", "show", "names", "listar", "mostre", "mostrar",
                      "exibir"}, qn)
        THEN "all_with_survey"
        ELSE NULL

\* ResidentFilterService.determineFilterType
determineFilterType(q) ==
    LET qn == normalize(q)
    IN  IF /\ includes(qn, "particip")
           /\ some({"nao", "não", "not", "sem interesse", "nao interessados",
                    "nao querem participar", "nao participaria",
                    "não querem participar", "não quer participar",
                    "não participaria"}, qn)
        THEN "participation_not_interested"
        ELSE IF /\ some({"particip", "interested", "interessad", "event"}, qn)
                /\ ~some({"nao", "não", "not", "sem interesse", "nao interessados"}, qn)
        THEN "participation_interested"
        ELSE IF isNameSearchQuery(q) THEN "name_search"
        ELSE IF some({"dissatisfied", "unsatisfied", "insatisfied", "unhappy",
                      "insatisf", "insatisfeito", "insatisfeitos"}, qn)
        THEN "dissatisfied"
        ELSE IF /\ some({"satisfied", "satisfeito", "satisfeitos"}, qn)
                /\ ~some({"dissatisfied", "unsatisfied", "insatisfied", "unhappy",
                          "insatisfeito", "insatisfeitos"}, qn)
        THEN "satisfied"
        ELSE IF some({"list", "show", "names", "listar", "mostre", "mostrar",
                      "exibir"}, qn)
        THEN "all_with_survey"
        ELSE NULL

-----------------------------------------------------------------------------
(* MunicipalAnalysisEngine: the age-bracket, neighborhood and issues        *)
(* reports, as functions of what the data access layer hands over.  The     *)
(* narrative strings are known by a tag; rates are whole percentages (the   *)
(* record collections below keep answered * 100 divisible by total), and a  *)
(* mean is compared through its sum so that no division is rounded.         *)

RECURSIVE SumSeq(_)
SumSeq(seq) == IF seq = <<>> THEN 0 ELSE Head(seq) + SumSeq(Tail(seq))

\* [...seq].sort((a, b) => b.key - a.key): descending and stable; keys[i]
\* is the key of seq[i]
SortDescending(seq, keys) ==
    LET precedes(i, j) == keys[i] > keys[j] \/ (keys[i] = keys[j] /\ i < j)
        rank(i) == 1 + Cardinality({ j \in 1..Len(seq) : precedes(j, i) })
    IN  [r \in 1..Len(seq) |-> seq[CHOOSE i \in 1..Len(seq) : rank(i) = r]]

\* An age is [kind |-> "missing"], [kind |-> "number", value |-> n] or
\* [kind |-> "text"], a non-empty string parseInt cannot read
MissingAge == [kind |-> "missing", value |-> 0]
TextAge == [kind |-> "text", value |-> 0]
NumberAge(n) == [kind |-> "number", value |-> n]

\* r.age && r.survey && r.survey.satisfaction
hasAgeAndSatisfaction(r) ==
    /\ \/ r.age.kind = "text"
       \/ r.age.kind = "number" /\ r.age.value # 0
    /\ r.satisfaction # NULL

weights(label) ==
    CASE label = "Muito satisfeito" -> 5
      [] label = "Satisfeito" -> 4
      [] label = "Neutro" -> 3
      [] label = "Insatisfeito" -> 2
      [] label = "Muito insatisfeito" -> 1
      [] OTHER -> 3

bracketsDef ==
    <<[key |-> "15-24", min |-> 15, max |-> 24],
      [key |-> "25-34", min |-> 25, max |-> 34],
      [key |-> "35-44", min |-> 35, max |-> 44],
      [key |-> "45-54", min |-> 45, max |-> 54],
      [key |-> "55-64", min |-> 55, max |-> 64],
      [key |-> "65+", min |-> 65, max |-> 150]>>

\* parseInt(r.age, 10) is a number and lies in bracket b
inBracket(r, b) ==
    /\ r.age.kind = "number"
    /\ r.age.value >= b.min
    /\ r.age.value <= b.max

\* MunicipalAnalysisEngine.analyzeSatisfactionByAge; the average score of a
\* bracket is kept as its total score and its count
analyzeSatisfactionByAge(responses) ==
    LET withAge == SelectSeq(responses, hasAgeAndSatisfaction)
        bucket(b) ==
            LET members == SelectSeq(withAge, LAMBDA r : inBracket(r, b))
            IN  [key |-> b.key, label |-> b.key, count |-> Len(members),
                 totalScore |-> SumSeq([i \in 1..Len(members) |->
                                          weights(members[i].satisfaction)])]
        buckets == [i \in 1..Len(bracketsDef) |-> bucket(bracketsDef[i])]
    IN  IF Len(withAge) = 0
        THEN [totalResponses |-> 0, brackets |-> <<>>,
              analysisQuality |-> "insufficient_data"]
        ELSE [totalResponses |-> Len(withAge),
              brackets |-> SelectSeq(buckets, LAMBDA b : b.count > 0),
              analysisQuality |-> IF Len(withAge) < 30 THEN "limited" ELSE "good"]

\* stats.total > 0 ? (stats.answered / stats.total) * 100 : 0
responseRate(stats) ==
    IF stats.total > 0 THEN (stats.answered * 100) \div stats.total ELSE 0

withRate(stats) ==
    [neighborhood |-> stats.neighborhood, total |-> stats.total,
     answered |-> stats.answered, responseRate |-> responseRate(stats)]

\* n.responseRate < avgResponseRate - 10, the mean being sum / count
belowAverageLess10(n, sum, count) == n.responseRate * count < sum - 10 * count

\* A faulty threshold: concern only when more than half are below the cutoff
generateNeighborhoodInsights_MajorityThreshold(neighborhoodsSortedByResponse) ==
    LET sorted == neighborhoodsSortedByResponse
        count == Len(sorted)
        sum == SumSeq([i \in 1..count |-> sorted[i].responseRate])
        lowPerforming == SelectSeq(sorted, LAMBDA n : belowAverageLess10(n, sum, count))
        highPerforming == SelectSeq(sorted, LAMBDA n : n.responseRate >= 80)
        totalContacts == SumSeq([i \in 1..count |-> sorted[i].total])
        concentrated == totalContacts > 0 /\ sorted[1].total * 100 > 40 * totalContacts
    IN  IF count = 0
        THEN [insights |-> <<"no_data">>,
              recommendations |-> <<"collect_neighborhood">>,
              equityAssessment |-> "unknown"]
        ELSE [insights |->
                  <<"coverage", "best">>
                  \o (IF Len(lowPerforming) > 0 THEN <<"needs_attention">>
                      ELSE <<"consistent">>)
                  \o (IF concentrated THEN <<"concentration">> ELSE <<>>),
              recommendations |->
                  (IF Len(highPerforming) > 0 THEN <<"copy_practices">> ELSE <<>>)
                  \o (IF Len(lowPerforming) > 0 THEN <<"contact_low">> ELSE <<>>)
                  \o (IF concentrated THEN <<"expand_registration">> ELSE <<>>),
              equityAssessment |->
                  IF Len(lowPerforming) > 0
                  THEN (IF Len(lowPerforming) * 10 > count * 5 THEN "concern"
                        ELSE "moderate")
                  ELSE "excellent"]

\* MunicipalAnalysisEngine.generateNeighborhoodInsights
generateNeighborhoodInsights(neighborhoodsSortedByResponse) ==
    LET sorted == neighborhoodsSortedByResponse
        count == Len(sorted)
        sum == SumSeq([i \in 1..count |-> sorted[i].responseRate])
        lowPerforming == SelectSeq(sorted, LAMBDA n : belowAverageLess10(n, sum, count))
        highPerforming == SelectSeq(sorted, LAMBDA n : n.responseRate >= 80)
        top == sorted[1]
        totalContacts == SumSeq([i \in 1..count |-> sorted[i].total])
        concentrated == totalContacts > 0 /\ top.total * 100 > 40 * totalContacts
    IN  IF count = 0
        THEN [insights |-> <<"no_data">>,
              recommendations |-> <<"collect_neighborhood">>,
              equityAssessment |-> "unknown"]
        ELSE [insights |->
                  <<"coverage", "best">>
                  \o (IF Len(lowPerforming) > 0 THEN <<"needs_attention">>
                      ELSE <<"consistent">>)
                  \o (IF concentrated THEN <<"concentration">> ELSE <<>>),
              recommendations |->
                  (IF Len(highPerforming) > 0 THEN <<"copy_practices">> ELSE <<>>)
                  \o (IF Len(lowPerforming) > 0 THEN <<"contact_low">> ELSE <<>>)
                  \o (IF concentrated THEN <<"expand_registration">> ELSE <<>>),
              equityAssessment |->
                  IF Len(lowPerforming) > 0
                  THEN (IF Len(lowPerforming) * 10 > count * 4 THEN "concern"
                        ELSE "moderate")
                  ELSE "excellent"]

\* MunicipalAnalysisEngine.analyzeNeighborhoods; rawData in the order of
\* Object.entries
analyzeNeighborhoods(rawData) ==
    LET neighborhoodsRaw == [i \in 1..Len(rawData) |-> withRate(rawData[i])]
        byResponse == SortDescending(neighborhoodsRaw,
                                     [i \in 1..Len(rawData) |-> neighborhoodsRaw[i].responseRate])
        count == Len(byResponse)
        sum == SumSeq([i \in 1..count |-> byResponse[i].responseRate])
        \* n.responseRate < Math.max(0, avgResponse - 10)
        belowCutoff(n) ==
            IF count = 0 \/ sum - 10 * count < 0 THEN n.responseRate < 0
            ELSE belowAverageLess10(n, sum, count)
        analysis == generateNeighborhoodInsights(byResponse)
        flagged == SelectSeq(neighborhoodsRaw, belowCutoff)
    IN  [insights |-> analysis.insights,
         recommendations |-> analysis.recommendations,
         equityAssessment |-> analysis.equityAssessment,
         totalNeighborhoods |-> Len(neighborhoodsRaw),
         bestPerforming |-> IF count > 0 THEN byResponse[1].neighborhood ELSE NULL,
         needsAttention |-> [i \in 1..Len(flagged) |-> flagged[i].neighborhood]]

\* recommendations[issue] || null; a recommendation is known by its issue
getIssueSpecificRecommendation(issue) ==
    IF issue \in {"Segurança", "Saúde", "Transporte", "Educação", "Emprego", "Outros"}
    THEN "recommendation:" \o issue
    ELSE NULL

\* ((count / total) * 100).toFixed(1), in tenths of a percent
percentage(count, total) == (2000 * count + total) \div (2 * total)

\* MunicipalAnalysisEngine.generateIssuesInsights
generateIssuesInsights(rawData, breakdown) ==
    LET topThree == SubSeq(breakdown, 1, IF Len(breakdown) < 3 THEN Len(breakdown) ELSE 3)
        topThreePercentage == SumSeq([i \in 1..Len(topThree) |-> topThree[i].percentage])
        framing == IF breakdown[1].percentage > 500 THEN "dominant"
                   ELSE IF topThreePercentage > 700 THEN "concentrated"
                   ELSE "diverse"
        specific == [i \in 1..Len(topThree) |->
                        getIssueSpecificRecommendation(topThree[i].issue)]
    IN  IF Len(breakdown) = 0
        THEN [insights |-> <<"none_reported">>, recommendations |-> <<>>]
        ELSE [insights |-> <<"top_issue", "top_three", framing>>,
              recommendations |->
                  <<"framing:" \o framing>>
                  \o SelectSeq(specific, LAMBDA r : r # NULL)]

\* MunicipalAnalysisEngine.analyzeIssues; rawData.breakdown in the order of
\* Object.entries
analyzeIssues(rawData) ==
    LET sorted == SortDescending(rawData.breakdown,
                                 [i \in 1..Len(rawData.breakdown) |->
                                     rawData.breakdown[i].count])
        breakdown == [i \in 1..Len(sorted) |->
                         [issue |-> sorted[i].issue, count |-> sorted[i].count,
                          percentage |-> percentage(sorted[i].count, rawData.total)]]
        analysis == generateIssuesInsights(rawData, breakdown)
    IN  IF rawData.total = 0
        THEN [total |-> 0, breakdown |-> <<>>, insights |-> <<"no_data">>,
              recommendations |-> <<"increase_participation">>,
              priorityIssues |-> <<>>]
        ELSE [total |-> rawData.total,
              breakdown |-> breakdown,
              insights |-> analysis.insights,
              recommendations |-> analysis.recommendations,
              priorityIssues |->
                  SubSeq(breakdown, 1, IF Len(breakdown) < 3 THEN Len(breakdown) ELSE 3)]

-----------------------------------------------------------------------------
(* The values the environment can supply.                                  *)

EnvValues == {Undefined, "   ", "sk-ant-key"}

\* Queries sent through the whole pipeline
PipelineQueries ==
    {"", NULL, "aaaa",
     "Quantos cadastros existem",
     "total system status",
     "Listar moradores insatisfeitos",
     "Encontre o Rômulo Guimarães",
     "Quero pedir uma pizza",
     "taxa resposta"}

\* Queries given to analyzeQuery alone
Queries ==
    PipelineQueries \cup
    {"   ",
     "Quantos moradores mostrar",
     "how many Silvas are there",
     "total",
     "valor total",
     "Mostrar análise de satisfação",
     "análise de satisfação",
     "Mostra relatório de bairros",
     "moradores insatisfeitos",
     "Encontre moradores satisfeitos",
     "Moradores que nao querem participar",
     "Busque Maria Silva",
     "Qual é a satisfação dos cidadãos?",
     "Previsão do tempo",
     "system status",
     "Encontre 42",
     "send message",
     "Mostrar total de bairros",
     "Mostre moradores insatisfeitos",
     "Localize Maria Silva",
     "Encontre Ana"}

ParsedVerdicts ==
    [inScope : BOOLEAN,
     confidence : {<<>>, <<30>>, <<64>>, <<65>>, <<90>>, <<120>>},
     score : {<<>>, <<80>>},
     categories : {<<>>},
     canonical_intent : {"satisfaction", "operational", "out_of_scope"}]

ProviderResponses ==
    {[kind |-> "error"], [kind |-> "raw", parsed |-> NoValue]}
    \cup { [kind |-> "raw", parsed |-> p] : p \in ParsedVerdicts }

ContextOutcomes ==
    {[kind |-> "ok", value |-> [total |-> 3]],
     [kind |-> "ok", value |-> NoValue],
     [kind |-> "throw"]}

SummaryLengths == {100, 400}

AgentBodies ==
    {[kind |-> "exception"]}
    \cup { [kind |-> "ok",
            analysis |-> [summary |-> Text("agent", l, {}, FALSE),
                          residents |-> SubSeq(ResidentPool, 1, n),
                          type |-> t]] :
           l \in SummaryLengths, n \in 0..MaxResidents,
           t \in {"analysis", "name_search_result"} }

LlmTexts ==
    {Text("llm", 0, {}, TRUE), Text("llm", 3, {}, TRUE)}
    \cup { Text("llm", l, ns, FALSE) :
           l \in {499, 500, 600}, ns \in {{}, {ResidentPool[2]}, {Stranger}} }

QualityLevels == {"excellent", "good", "fair", "poor"}

LlmOutcomes ==
    { [kind |-> "error", category |-> c] :
      c \in {"network", "auth", "timeout", "empty", "malformed"} }
    \cup { [kind |-> "ok",
            value |-> [response |-> t, quality |-> [level |-> lv]]] :
           t \in LlmTexts, lv \in QualityLevels }

\* What reaches classify from the provider: nothing when it is disabled
ClassifierInputs(isEnabled) == IF isEnabled THEN ProviderResponses ELSE {NoValue}

\* The queries no pre-check answers: analyzeQuery asks the classifier
ClassifiedQueries == { q \in Queries : heuristicRule(q) = "none" }

\* What classify returns, for every such query and provider answer
classifyTable ==
    [q \in ClassifiedQueries |->
        [e \in BOOLEAN |->
            [r \in ClassifierInputs(e) |-> classify(q, e, r)]]]

\* What analyzeQuery makes of each of these verdicts
classifiedTable ==
    [q \in ClassifiedQueries |->
        [e \in BOOLEAN |->
            [r \in ClassifierInputs(e) |->
                classifiedResult(q, classifyTable[q][e][r])]]]

\* The orchestrate calls that can be in flight on the singleton at once
MaxRequests == 2
Requests == 1..MaxRequests

Unread == "<unread>"

\* The answers of the outside world one orchestrate call has received
NothingReceived ==
    [scope |-> NoValue, context |-> NoValue, agent |-> NoValue,
     env |-> Unread, llm |-> NoValue]

\* The locals of an orchestrate call that has not started
IdleFrame ==
    [pc |-> "idle", query |-> Undefined, queryAnalysis |-> NoValue,
     intelligentContext |-> NoValue, agentResult |-> NoValue,
     outcome |-> NoValue, received |-> NothingReceived, overlapped |-> FALSE]

\* Queries sent concurrently
ConcurrentQueries ==
    {"Quantos cadastros existem",
     "total system status",
     "Listar moradores insatisfeitos",
     "taxa resposta"}

ConcurrentVerdicts(isEnabled) ==
    IF isEnabled
    THEN {[kind |-> "error"]}
         \cup { [kind |-> "raw",
                 parsed |-> [inScope |-> s, confidence |-> <<90>>, score |-> <<>>,
                             categories |-> <<>>,
                             canonical_intent |-> IF s THEN "satisfaction"
                                                  ELSE "out_of_scope"]] :
                s \in BOOLEAN }
    ELSE {NoValue}

ConcurrentContexts ==
    {[kind |-> "ok", value |-> [total |-> 3]], [kind |-> "throw"]}

ConcurrentBodies ==
    {[kind |-> "exception"],
     [kind |-> "ok",
      analysis |-> [summary |-> Text("agent", 100, {}, FALSE),
                    residents |-> SubSeq(ResidentPool, 1, 1),
                    type |-> "analysis"]]}

ConcurrentLlmOutcomes ==
    {[kind |-> "error", category |-> "timeout"],
     [kind |-> "ok",
      value |-> [response |-> Text("llm", 499, {}, FALSE),
                 quality |-> [level |-> "good"]]]}

\* What the heuristic rules of analyzeQuery answer, NoValue when none matches
heuristicTable ==
    [q \in ConcurrentQueries |->
        LET rule == heuristicRule(q)
        IN  IF rule # "none" THEN heuristicResult(q, rule) ELSE NoValue]

-----------------------------------------------------------------------------
(* The state machine.                                                      *)

Init ==
    /\ env \in EnvValues
    /\ startupEnv = env
    /\ hasValidApiKey = validateApiKey(env)
    /\ enabled = classifierEnabled(env)
    /\ pc = "idle"
    /\ query = Undefined
    /\ scope = NoValue
    /\ queryAnalysis = NoValue
    /\ intelligentContext = NoValue
    /\ agentResult = NoValue
    /\ llmResult = NoValue
    /\ outcome = NoValue
    /\ stages = <<>>
    /\ calls = <<>>
    /\ failures = {}
    /\ serviceCall = NoValue
    /\ serviceResult = NoValue
    /\ inflight = [i \in Requests |-> IdleFrame]

\* analyzeQuery up to its first suspension: the heuristic rules answer, or
\* scopeClassifier.classify is called
AnalyzeStart(q, received) ==
    /\ pc = "idle"
    /\ query' = q
    /\ scope' = NoValue
    /\ LET rule == heuristicRule(q)
       IN  IF rule # "none"
           THEN /\ queryAnalysis' = heuristicResult(q, rule)
                /\ pc' = "classified"
                /\ calls' = <<"analyzeQuery">>
                /\ stages' = received \o <<"CLASSIFIED">>
           ELSE /\ queryAnalysis' = NoValue
                /\ pc' = "classify_wait"
                /\ calls' = <<"analyzeQuery", "classify">>
                /\ stages' = received
    /\ UNCHANGED <<serviceVars, inflight>>
    /\ UNCHANGED <<env, startupEnv, hasValidApiKey, enabled, intelligentContext,
                   agentResult, llmResult, outcome, failures>>

\* orchestrator(query): l. 35-41
Orchestrate(q) == AnalyzeStart(q, <<"RECEIVED">>)

\* analyzer.analyzeQuery(query) called on its own, as the tests do
AnalyzeQuery(q) == AnalyzeStart(q, <<>>)

\* axios.post(..., { timeout: 8000 }) of ScopeClassifier.classify
classifyTimeoutMs == 8000

\* axios.post(..., { timeout: 10000 }) of enhanceWithLLM
llmTimeoutMs == 10000

\* The request is suspended on an HTTP request to the provider
WaitingOnProvider ==
    \/ pc = "classify_wait" /\ enabled
    \/ pc = "llm_wait"

\* The timeout of the HTTP request the request is suspended on
pendingTimeoutMs == IF pc = "classify_wait" THEN classifyTimeoutMs ELSE llmTimeoutMs

\* A faulty classifier: the provider is asked although no key is configured
ClassifyReturn_AlwaysProvider(r) ==
    /\ pc = "classify_wait"
    /\ scope' = classifyTable[query][enabled][r]
    /\ queryAnalysis' = classifiedTable[query][enabled][r]
    /\ calls' = Append(calls, "provider:classify")
    /\ stages' = Append(stages, "CLASSIFIED")
    /\ pc' = "classified"
    /\ UNCHANGED <<serviceVars, inflight>>
    /\ UNCHANGED <<env, startupEnv, hasValidApiKey, enabled, query,
                   intelligentContext, agentResult, llmResult, outcome, failures>>

\* classify answers and analyzeQuery runs to its return (l. 824-928)
ClassifyReturn(r) ==
    /\ pc = "classify_wait"
    /\ scope' = classifyTable[query][enabled][r]
    /\ queryAnalysis' = classifiedTable[query][enabled][r]
    /\ calls' = IF enabled THEN Append(calls, "provider:classify") ELSE calls
    /\ stages' = Append(stages, "CLASSIFIED")
    /\ pc' = "classified"
    /\ UNCHANGED <<serviceVars, inflight>>
    /\ UNCHANGED <<env, startupEnv, hasValidApiKey, enabled, query,
                   intelligentContext, agentResult, llmResult, outcome, failures>>

ClassifierAnswers == \E r \in ClassifierInputs(enabled) : ClassifyReturn(r)

\* The caller of analyzeQuery takes the result
AnalyzeQueryDone ==
    /\ pc = "classified"
    /\ pc' = "idle"
    /\ query' = Undefined
    /\ scope' = NoValue
    /\ queryAnalysis' = NoValue
    /\ stages' = <<>>
    /\ calls' = <<>>
    /\ UNCHANGED <<serviceVars, inflight>>
    /\ UNCHANGED <<env, startupEnv, hasValidApiKey, enabled, intelligentContext,
                   agentResult, llmResult, outcome, failures>>

\* A faulty guard: a blocked query goes on to context building
Route_IgnoringBlocked ==
    /\ pc = "classified"
    /\ calls' = Append(calls, "generateIntelligentContext")
    /\ pc' = "context_wait"
    /\ UNCHANGED <<serviceVars, inflight>>
    /\ UNCHANGED <<env, startupEnv, hasValidApiKey, enabled, query, scope,
                   queryAnalysis, intelligentContext, agentResult, llmResult,
                   outcome, stages, failures>>

\* l. 45-59: the blocked early return, or the call of generateIntelligentContext
Route ==
    /\ pc = "classified"
    /\ IF queryAnalysis.blocked
       THEN /\ outcome' = [kind |-> "returned",
                           value |-> blockedResponse(query, queryAnalysis)]
            /\ stages' = Append(stages, "BLOCKED")
            /\ calls' = calls
            /\ pc' = "done"
       ELSE /\ outcome' = outcome
            /\ stages' = stages
            /\ calls' = Append(calls, "generateIntelligentContext")
            /\ pc' = "context_wait"
    /\ UNCHANGED <<serviceVars, inflight>>
    /\ UNCHANGED <<env, startupEnv, hasValidApiKey, enabled, query, scope,
                   queryAnalysis, intelligentContext, agentResult, llmResult,
                   failures>>

\* l. 59-62: the context is there (or the call threw); routeToAgent is called
ContextReturn(c) ==
    /\ pc = "context_wait"
    /\ IF c.kind = "ok" /\ c.value # NoValue
       THEN /\ intelligentContext' = c.value
            /\ stages' = Append(stages, "CONTEXT_BUILT")
            /\ calls' = Append(calls, "routeToAgent")
            /\ outcome' = outcome
            /\ failures' = failures
            /\ pc' = "agent_wait"
       ELSE /\ intelligentContext' = intelligentContext
            /\ stages' = stages
            /\ calls' = calls
            /\ outcome' = onCriticalError(query, IF c.kind = "throw"
                                                 THEN "context building failed"
                                                 ELSE "Cannot read properties of undefined")
            /\ failures' = failures \cup {"context"}
            /\ pc' = "done"
    /\ UNCHANGED <<serviceVars, inflight>>
    /\ UNCHANGED <<env, startupEnv, hasValidApiKey, enabled, query, scope,
                   queryAnalysis, agentResult, llmResult>>

\* A faulty return: the result leaves without the ARBITRATED stage
Finish_WithoutArbitration(agent, llm, stagesSoFar, callsSoFar) ==
    /\ outcome' = [kind |-> "returned",
                   value |-> constructFinalResponse(query, queryAnalysis,
                                                    intelligentContext, agent, llm)]
    /\ stages' = Append(stagesSoFar, "RETURNED")
    /\ calls' = Append(callsSoFar, "constructFinalResponse")
    /\ pc' = "done"

\* l. 94-99: constructFinalResponse and the return
Finish(agent, llm, stagesSoFar, callsSoFar) ==
    /\ outcome' = [kind |-> "returned",
                   value |-> constructFinalResponse(query, queryAnalysis,
                                                    intelligentContext, agent, llm)]
    /\ stages' = stagesSoFar \o <<"ARBITRATED", "RETURNED">>
    /\ calls' = Append(callsSoFar, "constructFinalResponse")
    /\ pc' = "done"

\* l. 62-92: the agent answered (or threw); the enhancement is skipped, fails
\* before the request is sent, or is awaited
AgentReturn(b) ==
    /\ pc = "agent_wait"
    /\ LET r == routeToAgent(query, queryAnalysis, b)
           failed == IF b.kind = "exception" THEN {"agent"} ELSE {}
       IN  IF r.kind = "throw"
           THEN /\ outcome' = onCriticalError(query, r.error)
                /\ failures' = failures \cup failed
                /\ UNCHANGED <<agentResult, llmResult, stages, calls>>
                /\ pc' = "done"
           ELSE /\ agentResult' = r.value
                /\ llmResult' = llmResult
                /\ IF ~shouldEnhance(hasValidApiKey, env, queryAnalysis.intent)
                   THEN /\ failures' = failures \cup failed
                        /\ Finish(r.value, NoValue,
                                  stages \o <<"ROUTED", "ENHANCEMENT_SKIPPED">>, calls)
                   ELSE IF env = Undefined
                   THEN \* process.env.CLAUDE_API_KEY.trim() throws (l. 150)
                        /\ failures' = failures \cup failed \cup {"llm"}
                        /\ Finish(r.value, NoValue,
                                  stages \o <<"ROUTED", "ENHANCEMENT_FAILED">>,
                                  Append(calls, "enhanceWithLLM"))
                   ELSE /\ failures' = failures \cup failed
                        /\ stages' = Append(stages, "ROUTED")
                        /\ calls' = calls \o <<"enhanceWithLLM", "provider:llm">>
                        /\ outcome' = outcome
                        /\ pc' = "llm_wait"
    /\ UNCHANGED <<serviceVars, inflight>>
    /\ UNCHANGED <<env, startupEnv, hasValidApiKey, enabled, query, scope,
                   queryAnalysis, intelligentContext>>

\* A faulty handler: a rejected enhancement ends the request with an error
LlmReturn_FailureFatal(o) ==
    /\ pc = "llm_wait"
    /\ IF o.kind = "ok"
       THEN /\ llmResult' = o.value
            /\ failures' = failures
            /\ outcome' = [kind |-> "returned",
                           value |-> constructFinalResponse(query, queryAnalysis,
                                         intelligentContext, agentResult, o.value)]
            /\ stages' = stages \o <<"ENHANCED", "ARBITRATED", "RETURNED">>
            /\ calls' = Append(calls, "constructFinalResponse")
       ELSE /\ llmResult' = NoValue
            /\ failures' = failures \cup {"llm"}
            /\ outcome' = [kind |-> "returned",
                           value |-> createErrorResponse(query, o.category)]
            /\ stages' = Append(stages, "ENHANCEMENT_FAILED")
            /\ calls' = calls
    /\ pc' = "done"
    /\ UNCHANGED <<serviceVars, inflight>>
    /\ UNCHANGED <<env, startupEnv, hasValidApiKey, enabled, query, scope,
                   queryAnalysis, intelligentContext, agentResult>>

\* l. 72-99: enhanceWithLLM resolved or rejected
LlmReturn(o) ==
    /\ pc = "llm_wait"
    /\ IF o.kind = "ok"
       THEN /\ llmResult' = o.value
            /\ failures' = failures
            /\ Finish(agentResult, o.value, Append(stages, "ENHANCED"), calls)
       ELSE /\ llmResult' = NoValue
            /\ failures' = failures \cup {"llm"}
            /\ Finish(agentResult, NoValue, Append(stages, "ENHANCEMENT_FAILED"), calls)
    /\ UNCHANGED <<serviceVars, inflight>>
    /\ UNCHANGED <<env, startupEnv, hasValidApiKey, enabled, query, scope,
                   queryAnalysis, intelligentContext, agentResult>>

\* The caller has the result; the singleton is ready for the next query
Deliver ==
    /\ pc = "done"
    /\ pc' = "idle"
    /\ query' = Undefined
    /\ scope' = NoValue
    /\ queryAnalysis' = NoValue
    /\ intelligentContext' = NoValue
    /\ agentResult' = NoValue
    /\ llmResult' = NoValue
    /\ outcome' = NoValue
    /\ stages' = <<>>
    /\ calls' = <<>>
    /\ failures' = {}
    /\ UNCHANGED <<serviceVars, inflight>>
    /\ UNCHANGED <<env, startupEnv, hasValidApiKey, enabled>>

\* process.env.CLAUDE_API_KEY is reassigned while the process runs
SetEnv(v) ==
    /\ v # env
    /\ env' = v
    /\ UNCHANGED <<serviceVars, inflight>>
    /\ UNCHANGED <<startupEnv, hasValidApiKey, enabled, pc, query, scope,
                   queryAnalysis, intelligentContext, agentResult, llmResult,
                   outcome, stages, calls, failures>>

Step ==
    \/ ClassifierAnswers
    \/ Route
    \/ \E c \in ContextOutcomes : ContextReturn(c)
    \/ \E b \in AgentBodies : AgentReturn(b)
    \/ \E o \in LlmOutcomes : LlmReturn(o)

Next ==
    \/ \E q \in PipelineQueries : Orchestrate(q)
    \/ Step
    \/ Deliver
    \/ \E v \in EnvValues : SetEnv(v)

Spec == Init /\ [][Next]_vars

\* Every pending call answers: the provider calls carry timeouts (8 s and
\* 10 s), the other stages are local computations
FairSpec ==
    /\ Spec
    /\ WF_vars(ClassifierAnswers)
    /\ WF_vars(Route)
    /\ WF_vars(\E c \in ContextOutcomes : ContextReturn(c))
    /\ WF_vars(\E b \in AgentBodies : AgentReturn(b))
    /\ WF_vars(\E o \in LlmOutcomes : LlmReturn(o))

-----------------------------------------------------------------------------
(* The services called on their own, as the agents and the tests call      *)
(* them, with what the data access layer can hand over.                    *)

MaxResponses == 3
MaxNeighborhoods == 4

SeqsUpTo(n, S) == UNION { [1..k -> S] : k \in 0..n }

FilterQueries ==
    Queries
    \cup {"Mostrar moradores que não querem participar",
          "Encontre quem nao quer participar",
          "moradores interessados em eventos",
          "unhappy residents",
          "Listar todos",
          "Bom dia"}

SurveyResponses ==
    [age : {MissingAge, TextAge, NumberAge(0), NumberAge(10), NumberAge(20),
            NumberAge(70)},
     satisfaction : {"Satisfeito", NULL}]

SurveyResponseLists == SeqsUpTo(MaxResponses, SurveyResponses)

NeighborhoodNames == <<"Centro", "Norte", "Sul", "Leste", "Oeste">>

NeighborhoodStats ==
    {[total |-> 100, answered |-> 90], [total |-> 100, answered |-> 85],
     [total |-> 100, answered |-> 40], [total |-> 100, answered |-> 38],
     [total |-> 10, answered |-> 9], [total |-> 0, answered |-> 0]}

\* getNeighborhoodRawData(): one entry per neighborhood, in insertion order
NeighborhoodRawData ==
    { [i \in 1..Len(stats) |->
          [neighborhood |-> NeighborhoodNames[i], total |-> stats[i].total,
           answered |-> stats[i].answered]] :
      stats \in SeqsUpTo(MaxNeighborhoods, NeighborhoodStats) }

IssueNames == {"Segurança", "Saúde", "Iluminação", "Outros"}

\* getIssuesRawData(): the count of every reported issue and their total
IssuesRawData ==
    { [total |-> SumSeq([i \in 1..Len(b) |-> b[i].count]), breakdown |-> b] :
      b \in { c \in SeqsUpTo(Cardinality(IssueNames),
                             [issue : IssueNames, count : {1, 3}]) :
              \A i, j \in 1..Len(c) : i # j => c[i].issue # c[j].issue } }

ServiceCall(method, argument, result) ==
    /\ serviceCall = NoValue
    /\ serviceCall' = [method |-> method, argument |-> argument]
    /\ serviceResult' = result
    /\ UNCHANGED <<pipelineVars, inflight>>

\* residentFilter.determineFilterType(query)
DetermineFilterType(q) ==
    ServiceCall("determineFilterType", q, determineFilterType(q))

\* engine.analyzeSatisfactionByAge() over the responses of the data layer
AnalyzeSatisfactionByAge(responses) ==
    ServiceCall("analyzeSatisfactionByAge", responses,
                analyzeSatisfactionByAge(responses))

\* engine.analyzeNeighborhoods()
AnalyzeNeighborhoods(rawData) ==
    ServiceCall("analyzeNeighborhoods", rawData, analyzeNeighborhoods(rawData))

\* engine.analyzeIssues()
AnalyzeIssues(rawData) ==
    ServiceCall("analyzeIssues", rawData, analyzeIssues(rawData))

\* The caller takes the result
ServiceDone ==
    /\ serviceCall # NoValue
    /\ serviceCall' = NoValue
    /\ serviceResult' = NoValue
    /\ UNCHANGED <<pipelineVars, inflight>>

NextServices ==
    \/ \E q \in FilterQueries : DetermineFilterType(q)
    \/ \E responses \in SurveyResponseLists : AnalyzeSatisfactionByAge(responses)
    \/ \E rawData \in NeighborhoodRawData : AnalyzeNeighborhoods(rawData)
    \/ \E rawData \in IssuesRawData : AnalyzeIssues(rawData)
    \/ ServiceDone

SpecServices == Init /\ [][NextServices]_vars

NextAnalyzer ==
    \/ \E q \in Queries : AnalyzeQuery(q)
    \/ ClassifierAnswers
    \/ AnalyzeQueryDone

SpecAnalyzer == Init /\ [][NextAnalyzer]_vars

-----------------------------------------------------------------------------
(* Several orchestrate calls in flight on the one orchestratorInstance.    *)
(* Each call has its own locals (a frame of inflight); the calls share the *)
(* fields of the singleton and process.env.                                *)

\* const queryAnalysis of the call (orchestrator.js l. 41)
analysisFor_OnInstance(i) ==
    LET others == {j \in Requests \ {i} : inflight[j].queryAnalysis # NoValue}
    IN  IF others = {} THEN inflight[i].queryAnalysis
        ELSE inflight[CHOOSE j \in others : TRUE].queryAnalysis

\* const queryAnalysis of the call (orchestrator.js l. 41)
analysisFor(i) == inflight[i].queryAnalysis

\* The catch of l. 101-104 after generateIntelligentContext failed
contextFailure(q, c) ==
    onCriticalError(q, IF c.kind = "throw" THEN "context building failed"
                       ELSE "Cannot read properties of undefined")

\* l. 94-99
finalOutcome(q, qa, ctx, agent, llm) ==
    [kind |-> "returned", value |-> constructFinalResponse(q, qa, ctx, agent, llm)]

\* Another call is suspended somewhere in the pipeline
OthersInFlight(i) ==
    \E j \in Requests \ {i} : inflight[j].pc \notin {"idle", "done"}

\* Call i goes on with the locals f
Resume(i, f) ==
    /\ inflight' = [inflight EXCEPT
                       ![i] = [f EXCEPT !.overlapped = @ \/ OthersInFlight(i)]]
    /\ UNCHANGED <<pipelineVars, serviceVars>>

\* orchestrator(query): l. 35-41, analyzeQuery up to its first suspension
OrchestrateConcurrently(i, q) ==
    /\ inflight[i].pc = "idle"
    /\ \E answered \in {heuristicTable[q]} :
          Resume(i, IF answered # NoValue
                    THEN [IdleFrame EXCEPT !.query = q,
                                           !.queryAnalysis = answered,
                                           !.pc = "classified"]
                    ELSE [IdleFrame EXCEPT !.query = q, !.pc = "classify_wait"])

\* classify answers call i (MunicipalPromptEngine.js l. 824-928)
ClassifyReturnTo(i, r) ==
    LET f == inflight[i]
    IN  /\ f.pc = "classify_wait"
        /\ Resume(i, [f EXCEPT !.queryAnalysis = classifiedTable[f.query][enabled][r],
                               !.received.scope = r,
                               !.pc = "classified"])

\* l. 45-59 for call i
RouteOf(i) ==
    LET f == inflight[i]
        qa == analysisFor(i)
    IN  /\ f.pc = "classified"
        /\ Resume(i, IF qa.blocked
                     THEN [f EXCEPT !.outcome = [kind |-> "returned",
                                                 value |-> blockedResponse(f.query, qa)],
                                    !.pc = "done"]
                     ELSE [f EXCEPT !.pc = "context_wait"])

\* l. 59-62 for call i
ContextReturnTo(i, c) ==
    LET f == inflight[i]
    IN  /\ f.pc = "context_wait"
        /\ Resume(i, IF c.kind = "ok" /\ c.value # NoValue
                     THEN [f EXCEPT !.intelligentContext = c.value,
                                    !.received.context = c,
                                    !.pc = "agent_wait"]
                     ELSE [f EXCEPT !.outcome = contextFailure(f.query, c),
                                    !.received.context = c,
                                    !.pc = "done"])

\* l. 62-92 for call i
AgentReturnTo(i, b) ==
    LET f == inflight[i]
        qa == analysisFor(i)
        r == routeToAgent(f.query, qa, b)
    IN  /\ f.pc = "agent_wait"
        /\ Resume(i,
              IF r.kind = "throw"
              THEN [f EXCEPT !.outcome = onCriticalError(f.query, r.error),
                             !.received.agent = b,
                             !.pc = "done"]
              ELSE IF ~shouldEnhance(hasValidApiKey, env, qa.intent)
              THEN [f EXCEPT !.agentResult = r.value,
                             !.received.agent = b,
                             !.outcome = finalOutcome(f.query, qa, f.intelligentContext,
                                                      r.value, NoValue),
                             !.pc = "done"]
              ELSE IF env = Undefined
              THEN [f EXCEPT !.agentResult = r.value,
                             !.received.agent = b,
                             !.received.env = env,
                             !.outcome = finalOutcome(f.query, qa, f.intelligentContext,
                                                      r.value, NoValue),
                             !.pc = "done"]
              ELSE [f EXCEPT !.agentResult = r.value,
                             !.received.agent = b,
                             !.received.env = env,
                             !.pc = "llm_wait"])

\* l. 72-99 for call i
LlmReturnTo(i, o) ==
    LET f == inflight[i]
        llm == IF o.kind = "ok" THEN o.value ELSE NoValue
    IN  /\ f.pc = "llm_wait"
        /\ Resume(i, [f EXCEPT !.received.llm = o,
                               !.outcome = finalOutcome(f.query, analysisFor(i),
                                                        f.intelligentContext,
                                                        f.agentResult, llm),
                               !.pc = "done"])

\* The caller of call i has the result
DeliverTo(i) ==
    /\ inflight[i].pc = "done"
    /\ inflight' = [inflight EXCEPT ![i] = IdleFrame]
    /\ UNCHANGED <<pipelineVars, serviceVars>>

NextConcurrent ==
    \/ \E i \in Requests, q \in ConcurrentQueries : OrchestrateConcurrently(i, q)
    \/ \E i \in Requests, r \in ConcurrentVerdicts(enabled) : ClassifyReturnTo(i, r)
    \/ \E i \in Requests : RouteOf(i)
    \/ \E i \in Requests, c \in ConcurrentContexts : ContextReturnTo(i, c)
    \/ \E i \in Requests, b \in ConcurrentBodies : AgentReturnTo(i, b)
    \/ \E i \in Requests, o \in ConcurrentLlmOutcomes : LlmReturnTo(i, o)
    \/ \E i \in Requests : DeliverTo(i)
    \/ \E v \in EnvValues : SetEnv(v)

SpecConcurrent == Init /\ [][NextConcurrent]_vars

\* orchestrate(q) as a function of the query, of the fields of the singleton
\* and of the answers the call receives: the call processed alone
orchestrateAlone(q, isEnabled, hasKey, received) ==
    LET qa == IF heuristicTable[q] # NoValue THEN heuristicTable[q]
              ELSE classifiedTable[q][isEnabled][received.scope]
        c == received.context
        r == routeToAgent(q, qa, received.agent)
        o == received.llm
    IN  IF qa.blocked
        THEN [kind |-> "returned", value |-> blockedResponse(q, qa)]
        ELSE IF ~(c.kind = "ok" /\ c.value # NoValue)
        THEN contextFailure(q, c)
        ELSE IF r.kind = "throw"
        THEN onCriticalError(q, r.error)
        ELSE IF ~shouldEnhance(hasKey, received.env, qa.intent)
                \/ received.env = Undefined
        THEN finalOutcome(q, qa, c.value, r.value, NoValue)
        ELSE finalOutcome(q, qa, c.value, r.value,
                          IF o.kind = "ok" THEN o.value ELSE NoValue)

-----------------------------------------------------------------------------
(* Properties.                                                             *)

\* analyzeQuery has returned
Classified == pc = "classified" /\ queryAnalysis # NoValue

\* C1: in every analysis result, blocked = TRUE exactly when the intent is
\* out_of_scope, and exactly when scope.inScope = FALSE (the empty query
\* included).
C1_BlockedIffOutOfScope ==
    Classified =>
        /\ queryAnalysis.blocked <=> (queryAnalysis.intent = "out_of_scope")
        /\ queryAnalysis.blocked <=> (queryAnalysis.scope.inScope = FALSE)

\* C2: a query that matches the statistical / operational pattern is never
\* blocked, whatever the classifier would have answered: the pattern is
\* decided before the classifier, which is not asked.
C2_StatisticalNeverBlocked ==
    (Classified /\ isStatisticalOrOperationalQuery(query)) =>
        /\ ~queryAnalysis.blocked
        /\ queryAnalysis.scope.inScope
        /\ ~SeqContains(calls, "classify")
        /\ \A e \in BOOLEAN : \A r \in ProviderResponses :
               ~analyzeQuery(query, e, r).blocked

\* A statistical query without any municipal token, which the low-confidence
\* rule would block if the classifier path were taken
C2_Witness ==
    /\ Classified
    /\ isStatisticalOrOperationalQuery(query)
    /\ ~hasMunicipalDomainTokens(query)
    /\ ~queryAnalysis.blocked

\* orchestrator(query) has handed a result to its caller
Returned == pc = "done" /\ outcome.kind = "returned"

\* The final response text is the LLM candidate L
UsesLlmText == Returned /\ outcome.value.response.src = "llm"

\* The final text names at least one resident of the result
NamesAResident ==
    \E i \in 1..Len(outcome.value.residents) :
        outcome.value.residents[i] \in outcome.value.response.names

NameSearch == SeqContains(queryAnalysis.dataNeeds, "name_search")

GoodQuality == llmResult.quality.level \in {"excellent", "good"}

\* The deterministic candidate D
DeterministicText ==
    IF agentResult.analysis.summary.len = 0
    THEN AnalysisCompleted ELSE agentResult.analysis.summary

\* C3 (as stated): the LLM text is the final response only if it names at
\* least one resident that was actually retrieved.
C3_LlmTextOnlyIfGrounded == UsesLlmText => NamesAResident

\* C3 (amended): the LLM text is the final response only if it names a
\* retrieved resident, or the query is no name search, the quality is excellent
\* or good and L is more than 1.5 times as long as D, or the query is a name
\* search, the quality is fair or poor and L is non-blank and shorter than 500
\* characters.
C3_LlmTextOnlyIfGroundedOrException ==
    UsesLlmText =>
        \/ NamesAResident
        \/ /\ ~NameSearch
           /\ GoodQuality
           /\ 2 * llmResult.response.len > 3 * DeterministicText.len
        \/ /\ NameSearch
           /\ ~GoodQuality
           /\ ~llmResult.response.blank
           /\ llmResult.response.len < 500

C3_Witness ==
    /\ UsesLlmText
    /\ NamesAResident
    /\ NameSearch
    /\ GoodQuality

StageEdges ==
    {<<"RECEIVED", "CLASSIFIED">>,
     <<"CLASSIFIED", "BLOCKED">>,
     <<"CLASSIFIED", "CONTEXT_BUILT">>,
     <<"CONTEXT_BUILT", "ROUTED">>,
     <<"ROUTED", "ENHANCED">>,
     <<"ROUTED", "ENHANCEMENT_SKIPPED">>,
     <<"ROUTED", "ENHANCEMENT_FAILED">>,
     <<"ENHANCED", "ARBITRATED">>,
     <<"ENHANCEMENT_SKIPPED", "ARBITRATED">>,
     <<"ENHANCEMENT_FAILED", "ARBITRATED">>,
     <<"ARBITRATED", "RETURNED">>}

\* The stages passed so far are a path of the machine from RECEIVED
OnStagePath ==
    /\ stages # <<>> => stages[1] = "RECEIVED"
    /\ \A i \in 1..(Len(stages) - 1) : <<stages[i], stages[i + 1]>> \in StageEdges
    /\ \A i, j \in 1..Len(stages) : stages[i] = stages[j] => i = j

LastStage == stages[Len(stages)]

\* C4 (as stated): the stages of a request follow the machine, no stage is
\* skipped or repeated, and a result is handed to the caller only from BLOCKED
\* or RETURNED.
C4_StagesFollowMachine ==
    /\ OnStagePath
    /\ outcome.kind # "none" =>
           outcome.kind = "returned" /\ LastStage \in {"BLOCKED", "RETURNED"}

\* C4 (amended): the stages of a request follow the machine and no stage is
\* skipped or repeated; a result is handed to the caller from BLOCKED or
\* RETURNED, or, when context building or the agent throws, as an error result
\* (success = FALSE) from CLASSIFIED or CONTEXT_BUILT.
C4_StagesFollowMachineOrError ==
    /\ OnStagePath
    /\ outcome.kind # "none" =>
           /\ outcome.kind = "returned"
           /\ \/ LastStage = "BLOCKED"
              \/ LastStage = "RETURNED" /\ outcome.value.success
              \/ /\ LastStage \in {"CLASSIFIED", "CONTEXT_BUILT"}
                 /\ ~outcome.value.success
                 /\ failures \cap {"context", "agent"} # {}

C4_Witness ==
    /\ Returned
    /\ stages = <<"RECEIVED", "CLASSIFIED", "CONTEXT_BUILT", "ROUTED",
                  "ENHANCEMENT_FAILED", "ARBITRATED", "RETURNED">>

DownstreamCalls ==
    {"generateIntelligentContext", "routeToAgent", "enhanceWithLLM",
     "provider:llm", "constructFinalResponse"}

\* C5: a query classified as blocked is answered at once with the fixed
\* redirect message and an empty resident list, and no context building, no
\* agent, no enhancement and no arbitration takes place for it.
C5_BlockedAnsweredAtOnce ==
    (queryAnalysis # NoValue /\ queryAnalysis.blocked) =>
        /\ pc \in {"classified", "done"}
        /\ \A i \in 1..Len(calls) : calls[i] \notin DownstreamCalls
        /\ intelligentContext = NoValue /\ agentResult = NoValue /\ llmResult = NoValue
        /\ pc = "done" =>
               /\ outcome.kind = "returned"
               /\ outcome.value.response = RedirectMessage
               /\ outcome.value.residents = <<>>
               /\ outcome.value.query = query
               /\ LastStage = "BLOCKED"

C5_Witness ==
    /\ Returned
    /\ queryAnalysis.blocked
    /\ query = "Quero pedir uma pizza"
    /\ outcome.value.response = RedirectMessage

\* C6: when context building or the agent fails with an exception for a
\* non-blocked query, the result has success = FALSE, an empty resident list
\* and the original query; it is never a result with success = TRUE.
C6_FatalFailureIsErrorResult ==
    (Returned /\ ~queryAnalysis.blocked /\ failures \cap {"context", "agent"} # {}) =>
        /\ ~outcome.value.success
        /\ outcome.value.residents = <<>>
        /\ outcome.value.query = query

EnhancementAttempted == SeqContains(calls, "enhanceWithLLM")

\* C7: when the enhancement call is attempted and fails, the result is still
\* a non-error result (success = TRUE) whose text is the deterministic
\* candidate and whose provenance marks the LLM as not used.
C7_EnhancementFailureNotFatal ==
    (pc = "done" /\ EnhancementAttempted /\ "llm" \in failures) =>
        /\ outcome.kind = "returned"
        /\ outcome.value.success
        /\ "error" \notin DOMAIN outcome.value
        /\ outcome.value.response = DeterministicText
        /\ ~outcome.value.provenance.llm.used
        /\ ~outcome.value.llmEnhanced
        /\ LastStage = "RETURNED"

\* The provider was called and the call failed
C7_Witness ==
    /\ Returned
    /\ "llm" \in failures
    /\ SeqContains(calls, "provider:llm")
    /\ outcome.value.success
    /\ outcome.value.response = agentResult.analysis.summary

\* The decision l. 69 takes, from the credential the process started with
StartupDecision == validateApiKey(startupEnv) /\ queryAnalysis.intent # "ticket"

\* C8 (as stated): for every non-blocked request, the enhancement call is
\* attempted exactly when a valid credential was present at startup and the
\* intent is not ticket.
C8_AttemptedIffStartupCredential ==
    (Returned /\ ~queryAnalysis.blocked) =>
        (EnhancementAttempted <=> StartupDecision)

\* C8 (amended): for every non-blocked request that got past context building
\* and routing, the enhancement call is attempted exactly when a valid
\* credential was present at startup and the intent is not ticket; a request
\* that fails before never attempts it; the credential decision is the one of
\* startup, whatever the environment holds later.
C8_AttemptedIffStartupCredentialOnceRouted ==
    /\ hasValidApiKey = validateApiKey(startupEnv)
    /\ EnhancementAttempted => SeqContains(stages, "ROUTED")
    /\ SeqContains(stages, "ROUTED") =>
           /\ ~queryAnalysis.blocked
           /\ EnhancementAttempted <=> StartupDecision

\* The environment has changed since startup, and the startup value decides
C8_Witness ==
    /\ Returned
    /\ SeqContains(stages, "ROUTED")
    /\ validateApiKey(startupEnv) # validateApiKey(env)
    /\ EnhancementAttempted <=> validateApiKey(startupEnv)
    /\ queryAnalysis.intent # "ticket"

\* C9: every call of orchestrate eventually hands a result object to its
\* caller and never throws, whatever the query and whatever the classifier,
\* context building, the agent and the enhancement call do.
C9_AlwaysReturnsNeverThrows ==
    /\ [](outcome.kind # "thrown")
    /\ (pc # "idle") ~> Returned

\* A null query and a request whose context building threw have been answered
C9_Witness ==
    /\ Returned
    /\ query = NULL \/ "context" \in failures
    /\ "response" \in DOMAIN outcome.value

\* C10: for a name search whose LLM candidate has quality excellent or good,
\* the final text is L only if L is grounded and shorter than 500 characters;
\* in every other case it is the deterministic candidate.
C10_NameSearchArbitration ==
    (Returned /\ llmResult # NoValue /\ NameSearch /\ GoodQuality) =>
        LET L == llmResult.response
            grounded == \E i \in 1..Len(agentResult.analysis.residents) :
                            agentResult.analysis.residents[i] \in L.names
        IN  /\ outcome.value.response \in {L, DeterministicText}
            /\ outcome.value.response = L => (grounded /\ L.len < 500)
            /\ ~(grounded /\ L.len < 500) => outcome.value.response = DeterministicText

\* A grounded L of 600 characters, and D returned
C10_Witness ==
    /\ Returned /\ llmResult # NoValue /\ NameSearch /\ GoodQuality
    /\ llmResult.response.len = 600
    /\ \E i \in 1..Len(agentResult.analysis.residents) :
           agentResult.analysis.residents[i] \in llmResult.response.names
    /\ outcome.value.response = DeterministicText

\* A general query was arbitrated with an LLM candidate of quality excellent
\* or good
GeneralArbitration ==
    Returned /\ llmResult # NoValue /\ ~NameSearch /\ GoodQuality

\* L names a resident the agent retrieved
LlmGrounded ==
    \E i \in 1..Len(agentResult.analysis.residents) :
        agentResult.analysis.residents[i] \in llmResult.response.names

\* C11 (as stated): for a general query with quality excellent or good, the
\* final text is L exactly when L is grounded or len(L) >= 1.5 x len(D), the
\* boundary included, and D otherwise.
C11_GeneralArbitrationAtLeast ==
    GeneralArbitration =>
        IF LlmGrounded \/ 2 * llmResult.response.len >= 3 * DeterministicText.len
        THEN outcome.value.response = llmResult.response
        ELSE outcome.value.response = DeterministicText

\* C11 (amended): for a general query with quality excellent or good, the
\* final text is L exactly when L is grounded or len(L) > 1.5 x len(D); at
\* len(L) = 1.5 x len(D) an ungrounded L loses to D.
C11_GeneralArbitrationStrictlyLonger ==
    GeneralArbitration =>
        IF LlmGrounded \/ 2 * llmResult.response.len > 3 * DeterministicText.len
        THEN outcome.value.response = llmResult.response
        ELSE outcome.value.response = DeterministicText

\* The boundary: an ungrounded L of 600 characters against a D of 400
C11_Witness ==
    /\ GeneralArbitration
    /\ ~LlmGrounded
    /\ 2 * llmResult.response.len = 3 * DeterministicText.len
    /\ outcome.value.response = DeterministicText

\* A result assembled by constructFinalResponse
Assembled == Returned /\ "confidence" \in DOMAIN outcome.value

\* 0.70 + 0.15 [resident found] + 0.10 [excellent] + 0.05 [good], capped at
\* 0.95, in hundredths
ExpectedConfidence(residentFound, level) ==
    LET sum == 70 + (IF residentFound THEN 15 ELSE 0)
                  + (IF level = "excellent" THEN 10 ELSE 0)
                  + (IF level = "good" THEN 5 ELSE 0)
    IN  IF sum < 95 THEN sum ELSE 95

\* C12: the confidence of every assembled result is min(0.95, 0.70 + 0.15
\* [resident found] + 0.10 [excellent] + 0.05 [good]); one more resident or an
\* upgrade from good to excellent never decreases it; it never exceeds 0.95.
C12_ConfidenceFormula ==
    Assembled =>
        LET level == qualityLevel(llmResult)
            withResident ==
                [agentResult EXCEPT !.analysis.residents = Append(@, Stranger)]
            upgraded == [llmResult EXCEPT !.quality.level = "excellent"]
        IN  /\ outcome.value.confidence =
                   ExpectedConfidence(Len(outcome.value.residents) > 0, level)
            /\ outcome.value.confidence <= 95
            /\ calculateConfidence(withResident, llmResult) >= outcome.value.confidence
            /\ level = "good" =>
                   calculateConfidence(agentResult, upgraded) >= outcome.value.confidence

\* Residents found and quality good: 0.90, below the cap
C12_Witness ==
    /\ Assembled
    /\ Len(outcome.value.residents) > 0
    /\ qualityLevel(llmResult) = "good"
    /\ outcome.value.confidence = 90

\* C13: every query that matches the statistical / operational check comes
\* back with scope.inScope = TRUE, intent knowledge, queryType analysis and
\* total_count among its dataNeeds, whatever else it matches.
C13_StatisticalForcesKnowledgeAnalysis ==
    (Classified /\ isStatisticalOrOperationalQuery(query)) =>
        /\ queryAnalysis.scope.inScope
        /\ queryAnalysis.intent = "knowledge"
        /\ queryAnalysis.queryType = "analysis"
        /\ SeqContains(queryAnalysis.dataNeeds, "total_count")

\* The query holds an analysis keyword
HasAnalysisKeyword == some(normalizedKeywords, normalize(query))

\* The query holds a display verb
HasDisplayVerb == some(normalizedVerbs, normalize(query))

\* C14: a query with an analysis keyword and a display verb, or one that the
\* analysis-keyword rule classifies through its preposition pattern, never
\* has name_search among its dataNeeds.
C14_AnalysisNeverNameSearch ==
    (Classified /\ query # NULL /\ trim(query) # ""
                /\ \/ HasAnalysisKeyword /\ HasDisplayVerb
                   \/ heuristicRule(query) = "analysis_preposition") =>
        ~SeqContains(queryAnalysis.dataNeeds, "name_search")

\* The resident-segment-filter rule is the rule that classified the query
ByResidentFilter == Classified /\ heuristicRule(query) = "resident_filter"

\* C15: when the resident-segment-filter rule classifies a query, the result
\* is notification / listing if a display verb co-occurs in the query and
\* knowledge / analysis otherwise, for every segment.
C15_ResidentFilterByDisplayVerb ==
    ByResidentFilter =>
        IF some(filterVerbs, normalize(query))
        THEN queryAnalysis.intent = "notification" /\ queryAnalysis.queryType = "listing"
        ELSE queryAnalysis.intent = "knowledge" /\ queryAnalysis.queryType = "analysis"

\* The name-search rule is the rule that classified the query
ByNameSearch == Classified /\ heuristicRule(query) = "name_search"

\* C16: when the name-search rule classifies a query, the result is in scope
\* and not blocked, with intent knowledge, queryType listing and name_search
\* among its dataNeeds.
C16_NameSearchIsKnowledgeListing ==
    ByNameSearch =>
        /\ queryAnalysis.scope.inScope
        /\ ~queryAnalysis.blocked
        /\ queryAnalysis.intent = "knowledge"
        /\ queryAnalysis.queryType = "listing"
        /\ SeqContains(queryAnalysis.dataNeeds, "name_search")

\* The patterns of the four heuristic rules, each on its own
MatchesStatistical == isStatisticalOrOperationalQuery(query)

MatchesAnalysisVerb == HasAnalysisKeyword /\ HasDisplayVerb

MatchesAnalysisPreposition ==
    /\ HasAnalysisKeyword
    /\ \/ includes(normalize(query), "de") \/ includes(normalize(query), "do")
       \/ includes(normalize(query), "da")

MatchesResidentFilter ==
    /\ some(residentFilterKeywords, normalize(query))
    /\ \/ some(filterVerbs, normalize(query))
       \/ includes(normalize(query), "morador")
       \/ includes(normalize(query), "resident")
       \/ includes(normalize(query), "cidada")

MatchesNameSearch == detectNameSearch(query)

NoRuleMatches ==
    ~(MatchesStatistical \/ MatchesAnalysisVerb \/ MatchesAnalysisPreposition
      \/ MatchesResidentFilter \/ MatchesNameSearch)

\* analyzeQuery is running on, or has returned for, a query that is not empty
Analyzing ==
    /\ pc \in {"classify_wait", "classified"}
    /\ SeqContains(calls, "analyzeQuery")
    /\ query # NULL
    /\ trim(query) # ""

TimesCalled(component) == Cardinality({i \in 1..Len(calls) : calls[i] = component})

\* C17: the rules are tried in the order statistical, analysis keyword,
\* resident segment, name search, classifier, and the first one whose pattern
\* matches gives the result; the classifier is called at most once and only
\* when none of the four heuristic rules matched, and a query matching both
\* the statistical and the name-search pattern is answered by the statistical
\* rule.
C17_FirstMatchingRuleWins ==
    Analyzing =>
        /\ TimesCalled("classify") <= 1
        /\ SeqContains(calls, "classify") <=> NoRuleMatches
        /\ (pc = "classified" /\ queryAnalysis # NoValue) =>
              IF MatchesStatistical THEN queryAnalysis = statisticalResult(query)
              ELSE IF MatchesAnalysisVerb THEN queryAnalysis = analysisVerbResult(query)
              ELSE IF MatchesAnalysisPreposition
                   THEN queryAnalysis = analysisPrepositionResult(query)
              ELSE IF MatchesResidentFilter THEN queryAnalysis = residentFilterResult(query)
              ELSE IF MatchesNameSearch THEN queryAnalysis = nameSearchResult(query)
              ELSE queryAnalysis = classifiedResult(query, scope)

\* A query matching both the statistical and the name-search pattern was
\* answered by the statistical rule
C17_Witness ==
    /\ Analyzing
    /\ pc = "classified"
    /\ MatchesStatistical
    /\ MatchesNameSearch
    /\ queryAnalysis = statisticalResult(query)
    /\ queryAnalysis # nameSearchResult(query)
    /\ ~SeqContains(calls, "classify")

\* No heuristic rule matched: the result comes from the classifier path
ByClassifier ==
    /\ Classified
    /\ SeqContains(calls, "classify")
    /\ scope # NoValue

\* The query holds none of the domain-anchor tokens
NoDomainAnchor == \A t \in municipalTokens : ~includes(toLowerCase(query), t)

\* The confidence of a parsed provider verdict, in hundredths
RawConfidence(p) ==
    IF Len(p.confidence) = 1 THEN p.confidence[1]
    ELSE IF Len(p.score) = 1 THEN p.score[1]
    ELSE 50

\* C18: when no heuristic rule matches, the classifier's verdict is in scope
\* with confidence below 0.65 and the query holds no domain-anchor token, the
\* result is blocked with intent out_of_scope.  Stated for the verdict that
\* classify returned and for every verdict the provider may have sent.
C18_LowConfidenceWithoutAnchorBlocked ==
    (ByClassifier /\ NoDomainAnchor) =>
        /\ (scope.inScope /\ scope.confidence < 65) =>
              queryAnalysis.blocked /\ queryAnalysis.intent = "out_of_scope"
        /\ enabled =>
              \A r \in ProviderResponses :
                  (/\ r.kind = "raw"
                   /\ r.parsed # NoValue
                   /\ r.parsed.inScope
                   /\ RawConfidence(r.parsed) < 65) =>
                      /\ classifiedTable[query][TRUE][r].blocked
                      /\ classifiedTable[query][TRUE][r].intent = "out_of_scope"

\* "Quero pedir uma pizza" came back from the classifier in scope with low
\* confidence and was blocked
C18_Witness ==
    /\ ByClassifier
    /\ query = "Quero pedir uma pizza"
    /\ NoDomainAnchor
    /\ scope.inScope
    /\ scope.confidence < 65
    /\ queryAnalysis.blocked
    /\ queryAnalysis.intent = "out_of_scope"

\* The provider answered r with an in-scope verdict that carries a canonical
\* intent of the table, and analyzeQuery did not block the query
MappableVerdict(r) ==
    /\ r.kind = "raw"
    /\ r.parsed # NoValue
    /\ r.parsed.inScope
    /\ r.parsed.canonical_intent \in DOMAIN intentMap
    /\ classifyTable[query][TRUE][r].inScope
    /\ ~classifiedTable[query][TRUE][r].blocked

\* C19: whenever the classifier's in-scope verdict carries a canonical intent
\* of the table, the intent of the result is the table's image of it,
\* whatever intent the heuristic pass derived.
C19_CanonicalIntentRemapped ==
    (ByClassifier /\ enabled) =>
        \A r \in ProviderResponses :
            MappableVerdict(r) =>
                classifiedTable[query][TRUE][r].intent
                    = intentMap[r.parsed.canonical_intent]

\* classify was called and has returned
ClassifyReturned == pc = "classified" /\ SeqContains(calls, "classify")

\* C20: classify never raises to its caller; without a credential it returns
\* inScope = TRUE with confidence 0.5 and does not call the provider, on a
\* failed provider call it returns inScope = TRUE with confidence 0.5, on
\* unparsable output inScope = TRUE with confidence 0.4, and on every return
\* path the confidence lies in [0, 1] (0..100 hundredths).
C20_ClassifyFallbacks ==
    ClassifyReturned =>
        /\ scope # NoValue
        /\ scope.confidence \in 0..100
        /\ ~enabled =>
              /\ scope.inScope
              /\ scope.confidence = 50
              /\ ~SeqContains(calls, "provider:classify")
        /\ enabled =>
              \A r \in ProviderResponses :
                  LET verdict == classifyTable[query][TRUE][r]
                  IN  /\ verdict.confidence \in 0..100
                      /\ r.kind = "error" =>
                            verdict.inScope /\ verdict.confidence = 50
                      /\ (r.kind = "raw" /\ r.parsed = NoValue) =>
                            verdict.inScope /\ verdict.confidence = 40

\* The provider call failed and classify returned the optimistic verdict
C20_Witness ==
    /\ ClassifyReturned
    /\ enabled
    /\ SeqContains(calls, "provider:classify")
    /\ scope # NoValue
    /\ scope.categories = <<"error-fallback">>
    /\ scope.inScope
    /\ scope.confidence = 50

\* The provider sent r: a parsed in-scope verdict with confidence below 0.65
LowConfidenceInScope(r) ==
    /\ r.kind = "raw"
    /\ r.parsed # NoValue
    /\ r.parsed.inScope
    /\ RawConfidence(r.parsed) < 65

\* C28: the two copies of the low-confidence safeguard decide alike: for every
\* in-scope model verdict with confidence below 0.65, ScopeClassifier flips it
\* to out of scope exactly when QueryAnalyzer's rule 5 would block the query,
\* so a query holding a domain-anchor token that QueryAnalyzer recognises is
\* not blocked by the safeguard of either layer.
C28_SafeguardsDecideAlike ==
    (ByClassifier /\ enabled) =>
        \A r \in ProviderResponses :
            LowConfidenceInScope(r) =>
                /\ ~classifyTable[query][TRUE][r].inScope
                      <=> ~hasMunicipalDomainTokens(query)
                /\ hasMunicipalDomainTokens(query) =>
                      ~classifiedTable[query][TRUE][r].blocked

\* C30: whenever the classifier is consulted and returns out of scope, the
\* result is blocked with intent out_of_scope; the override branches never
\* fire, because a query that reaches the classifier matches neither the
\* statistical check nor the name-search check.
C30_OutOfScopeVerdictBlocks ==
    (Analyzing /\ SeqContains(calls, "classify")) =>
        /\ ~isStatisticalOrOperationalQuery(query)
        /\ ~detectNameSearch(query)
        /\ (ByClassifier /\ ~scope.inScope) =>
              /\ queryAnalysis.blocked
              /\ queryAnalysis.intent = "out_of_scope"
              /\ queryAnalysis.scope.inScope = FALSE

\* The provider judged a query out of scope and analyzeQuery blocked it
C30_Witness ==
    /\ ByClassifier
    /\ enabled
    /\ SeqContains(calls, "provider:classify")
    /\ ~scope.inScope
    /\ scope.reason = "model"
    /\ queryAnalysis.blocked
    /\ queryAnalysis.intent = "out_of_scope"

\* A service method has returned
Served(method) == serviceCall # NoValue /\ serviceCall.method = method

\* The patterns of determineFilterType, each on its own, on the normalized
\* query qn
Negated(qn) == some({"nao", "not", "sem interesse"}, qn)

MatchesNotInterested(qn) == includes(qn, "particip") /\ Negated(qn)

MatchesInterested(qn) ==
    some({"particip", "interested", "interessad", "event"}, qn) /\ ~Negated(qn)

MatchesDissatisfied(qn) ==
    some({"dissatisfied", "unsatisfied", "insatisfied", "unhappy", "insatisf"}, qn)

MatchesSatisfied(qn) ==
    some({"satisfied", "satisfeito"}, qn) /\ ~MatchesDissatisfied(qn)

MatchesListing(qn) ==
    some({"list", "show", "names", "listar", "mostre", "mostrar", "exibir"}, qn)

FirstMatchingFilter(q) ==
    LET qn == normalize(q)
    IN  IF MatchesNotInterested(qn) THEN "participation_not_interested"
        ELSE IF MatchesInterested(qn) THEN "participation_interested"
        ELSE IF isNameSearchQuery(q) THEN "name_search"
        ELSE IF MatchesDissatisfied(qn) THEN "dissatisfied"
        ELSE IF MatchesSatisfied(qn) THEN "satisfied"
        ELSE IF MatchesListing(qn) THEN "all_with_survey"
        ELSE NULL

\* C21: determineFilterType returns the first filter kind, in the order
\* participation-not-interested, participation-interested, name-search,
\* dissatisfied, satisfied, all-with-survey, whose pattern the query matches,
\* and null when none matches; a query with a not-interested-in-participating
\* pattern and a name-search verb with a name token resolves to
\* participation_not_interested.
C21_FirstFilterKindWins ==
    Served("determineFilterType") =>
        /\ serviceResult = FirstMatchingFilter(serviceCall.argument)
        /\ (/\ MatchesNotInterested(normalize(serviceCall.argument))
            /\ isNameSearchQuery(serviceCall.argument)) =>
              serviceResult = "participation_not_interested"

\* A query that is both a not-interested query and a name search was resolved
\* to the participation filter
C21_Witness ==
    /\ Served("determineFilterType")
    /\ MatchesNotInterested(normalize(serviceCall.argument))
    /\ isNameSearchQuery(serviceCall.argument)
    /\ serviceResult = "participation_not_interested"

\* C29: whenever analyzeQuery returns a result whose dataNeeds contains
\* name_search, determineFilterType resolves the same query to name_search.
C29_NameSearchAgreed ==
    (Classified /\ SeqContains(queryAnalysis.dataNeeds, "name_search")) =>
        determineFilterType(query) = "name_search"

\* C24: in the age-bracket report, records whose age is missing or cannot be
\* placed in a bracket are left out of the denominator: totalResponses is
\* the sum of the counts of the returned brackets.
C24_TotalIsSumOfBrackets ==
    Served("analyzeSatisfactionByAge") =>
        serviceResult.totalResponses
            = SumSeq([i \in 1..Len(serviceResult.brackets) |->
                         serviceResult.brackets[i].count])

\* The neighborhoods of the call in progress whose response rate lies below
\* mean(response rate) - 10, by position
BelowCutoff ==
    LET data == serviceCall.argument
        sum == SumSeq([i \in 1..Len(data) |-> responseRate(data[i])])
    IN  { i \in 1..Len(data) :
            responseRate(data[i]) * Len(data) < sum - 10 * Len(data) }

\* equityAssessment and needsAttention follow the relative cutoff
FollowsCutoffRule ==
    LET data == serviceCall.argument
    IN  /\ serviceResult.equityAssessment =
              IF Cardinality(BelowCutoff) * 100 > 40 * Len(data) THEN "concern"
              ELSE IF BelowCutoff = {} THEN "excellent"
              ELSE "moderate"
        /\ Len(serviceResult.needsAttention) = Cardinality(BelowCutoff)
        /\ \A i \in 1..Len(data) :
              i \in BelowCutoff
                  <=> SeqContains(serviceResult.needsAttention, data[i].neighborhood)

\* C25 as stated: for every set of neighborhoods, with cutoff = mean(response
\* rate) - 10, equityAssessment is concern if more than 40% of them are below
\* the cutoff, excellent if none is and moderate otherwise, and needsAttention
\* lists exactly the neighborhoods below the cutoff.
C25_EquityForEverySet == Served("analyzeNeighborhoods") => FollowsCutoffRule

\* C25, amended: the rule holds for every set with at least one neighborhood;
\* without neighborhoods equityAssessment is unknown and needsAttention empty.
C25_EquityForNonEmptySet ==
    Served("analyzeNeighborhoods") =>
        IF Len(serviceCall.argument) > 0 THEN FollowsCutoffRule
        ELSE /\ serviceResult.equityAssessment = "unknown"
             /\ serviceResult.needsAttention = <<>>

\* Response rates 90, 85, 40, 38: mean 63.25, cutoff 53.25, the last two
\* flagged, concern
C25_Witness ==
    /\ Served("analyzeNeighborhoods")
    /\ Len(serviceCall.argument) = 4
    /\ [i \in 1..4 |-> responseRate(serviceCall.argument[i])] = <<90, 85, 40, 38>>
    /\ BelowCutoff = {3, 4}
    /\ serviceResult.needsAttention = <<"Sul", "Leste">>
    /\ serviceResult.equityAssessment = "concern"

\* C26: the representativeness warning is raised whenever any single
\* neighborhood holds more than 40% of all contacts, whichever it is and
\* whatever its response rate.
C26_ConcentrationAlwaysWarned ==
    Served("analyzeNeighborhoods") =>
        LET data == serviceCall.argument
            totalContacts == SumSeq([i \in 1..Len(data) |-> data[i].total])
        IN  (\E i \in 1..Len(data) : data[i].total * 100 > 40 * totalContacts)
                => SeqContains(serviceResult.insights, "concentration")

\* C27: each of the top-3 issues contributes one remediation recommendation,
\* the one of the table for an issue of the table and the generic text
\* otherwise: after the framing recommendation the report carries as many
\* remediation strings as there are top-3 issues.
C27_RemediationForEveryTopIssue ==
    (Served("analyzeIssues") /\ serviceCall.argument.total > 0) =>
        /\ Len(serviceResult.recommendations) = 1 + Len(serviceResult.priorityIssues)
        /\ \A i \in 1..Len(serviceResult.priorityIssues) :
              getIssueSpecificRecommendation(serviceResult.priorityIssues[i].issue) # NULL
                  => SeqContains(serviceResult.recommendations,
                                 getIssueSpecificRecommendation(
                                     serviceResult.priorityIssues[i].issue))

\* A call that leaves the process: an HTTP request to the provider
IsProviderCall(c) == Len(c) >= 9 /\ SubSeq(c, 1, 9) = "provider:"

\* C23 as stated: while one query is processed the only network operation
\* is the LLM enhancement call, with a timeout of at most 10 seconds, and
\* the request waits on the provider nowhere else.
C23_OnlyEnhancementCallsProvider ==
    /\ \A i \in 1..Len(calls) : IsProviderCall(calls[i]) => calls[i] = "provider:llm"
    /\ TimesCalled("provider:llm") <= 1
    /\ WaitingOnProvider => (pc = "llm_wait" /\ pendingTimeoutMs <= 10000)

\* C23: while one query is processed the provider is called at most twice:
\* once by the scope classifier (only when it is enabled and no pre-check
\* answered, timeout 8 seconds) and once by the LLM enhancement (timeout
\* 10 seconds); the request waits on the provider only in these two calls,
\* each bounded by a timeout of at most 10 seconds.
C23_ProviderCallsBounded ==
    /\ \A i \in 1..Len(calls) :
          IsProviderCall(calls[i]) =>
              \/ /\ calls[i] = "provider:classify"
                 /\ enabled
                 /\ i = 3
                 /\ calls[2] = "classify"
              \/ /\ calls[i] = "provider:llm"
                 /\ i > 1
                 /\ calls[i - 1] = "enhanceWithLLM"
    /\ TimesCalled("provider:classify") <= 1
    /\ TimesCalled("provider:llm") <= 1
    /\ WaitingOnProvider =>
          /\ pendingTimeoutMs <= 10000
          /\ pc = "classify_wait" => pendingTimeoutMs = 8000
          /\ pc = "llm_wait" => calls[Len(calls)] = "provider:llm"

\* One request that asked the provider twice: to classify and to enhance
C23_Witness ==
    /\ pc = "done"
    /\ SeqContains(calls, "provider:classify")
    /\ SeqContains(calls, "provider:llm")
    /\ outcome.kind = "returned"

\* Call i has returned
HasReturned(i) == inflight[i].pc = "done"

\* C22: when several queries are processed concurrently through the shared
\* orchestrator, analyzer, filter and agent instances, under every
\* interleaving of their stages each query's result equals the result it
\* gets when processed alone with the same answers of the outside world: no
\* call reads anything another call in flight wrote.
C22_ResultAsWhenAlone ==
    \A i \in Requests :
        HasReturned(i) =>
            inflight[i].outcome =
                orchestrateAlone(inflight[i].query, enabled, hasValidApiKey,
                                 inflight[i].received)

\* Two calls for different queries, each resumed while the other was
\* suspended in the pipeline, both enhanced by the LLM
C22_Witness ==
    /\ HasReturned(1) /\ HasReturned(2)
    /\ inflight[1].overlapped /\ inflight[2].overlapped
    /\ inflight[1].query # inflight[2].query
    /\ inflight[1].queryAnalysis.intent # inflight[2].queryAnalysis.intent
    /\ inflight[1].received.llm # NoValue
    /\ inflight[2].received.llm # NoValue

====
